---- MODULE Spec2Model ----
(***************************************************************************)
(* State/render pipeline of the iFixit repairability score browser.        *)
(*                                                                         *)
(* The canonical page script is src/unnamed/part_000 (the most complete of *)
(* the parallel variants); src/script.js is the basic variant whose reset  *)
(* button reloads the dataset.  src/unnamed/part_003 is the chart module.  *)
(*                                                                         *)
(* Strings are sequences of symbols (one-character strings, or a whole     *)
(* keyword such as "name" where the code only ever handles the keyword as  *)
(* a unit).  An absent (null / undefined) string is NullStr, an absent     *)
(* number is NullNum, the not-a-number result of parseInt is NaN.          *)
(***************************************************************************)
EXTENDS Integers, Sequences, FiniteSets, TLC

VARIABLES
    devicesData,        \* let devicesData                       (part_000:17)
    storage,            \* localStorage['devicesData']
    searchInput,        \* #searchInput.value
    brandFilter,        \* #brandFilter.value (a <select>)
    brandOptions,       \* option values of #brandFilter
    scoreFilter,        \* #scoreFilter.value, <<>> when the element is absent
    includeNoScore,     \* #includeNoScore.checked
    currentSort,        \* let currentSort                       (part_000:20)
    selectedForCompare, \* let selectedForCompare                (part_000:19)
    lastFiltered,       \* window.lastFiltered
    renderInputs,       \* what the last renderTable read (dataset, controls, sort)
    overlays,           \* teardown portals per populateTable call, export menu, info tooltip
    jsonLd,             \* the items of script#jsonLd, <<>> with defined FALSE when absent
    deviceCount,        \* the number written to #deviceCount, NullNum for the static label
    bg,                 \* the background canvas animation: animateBG, bgRafId, pending frames
    tbody,              \* contents of #deviceTable
    wirePending,        \* the setTimeout(...,0) of populateTable has not run yet
    chartError,         \* #chartError is visible
    actionLive,         \* #actionLive.textContent (last notification)
    url,                \* location.search as a parameter map
    debounceTimer,      \* number of pending timers set by debounce()
    loads,              \* one entry per loadData call: "awaiting" its fetch,
                        \* "ok", "failed" (caught), or "threw" (rejected)
    page,               \* "parsed" before DOMContentLoaded, "ready" after
    drawer,             \* the selection count last written by refreshDrawer
    chartModule,        \* state of the chartModuleReady promise
    chartPending,       \* renderChart calls waiting for that promise
    chart,              \* the data of the histogram drawn, if any
    compareModal,       \* #compareModal: shown or not, and the cards it holds
    env,                \* the inputs the environment may supply
    gestures,           \* number of user gestures so far
    probe,              \* input of a pure-function specification
    result              \* output of a pure-function specification

vars == <<devicesData, storage, searchInput, brandFilter, brandOptions,
          scoreFilter, includeNoScore, currentSort, selectedForCompare,
          lastFiltered, renderInputs, overlays, jsonLd, bg, deviceCount, tbody, wirePending, chartError,
          actionLive, url, debounceTimer, loads, page,
          drawer, chartModule, chartPending, chart, compareModal, env,
          gestures, probe, result>>

appVars == <<devicesData, storage, searchInput, brandFilter, brandOptions,
             scoreFilter, includeNoScore, currentSort, selectedForCompare,
             lastFiltered, renderInputs, overlays, jsonLd, bg, deviceCount, tbody, wirePending, chartError,
             actionLive, url, debounceTimer, loads, page,
             drawer, chartModule, chartPending, chart, compareModal, env,
             gestures>>

appVarsNoBg == <<devicesData, storage, searchInput, brandFilter, brandOptions,
                 scoreFilter, includeNoScore, currentSort, selectedForCompare,
                 lastFiltered, renderInputs, overlays, jsonLd, deviceCount, tbody, wirePending, chartError,
                 actionLive, url, debounceTimer, loads, page,
                 drawer, chartModule, chartPending, chart, compareModal, env,
                 gestures>>

----------------------------------------------------------------------------
(* Values *)

NullStr == <<"<null>">>

NullNum == 0 - 999

NaN == 0 - 998

EmptyStr == <<>>

\* const MAX_COMPARE = 5
MAX_COMPARE == 5

\* JavaScript truthiness of a string-or-null value: s || ''
OrEmpty(s) == IF s = NullStr THEN EmptyStr ELSE s

\* d.brand ?? ''
Coalesce(s) == IF s = NullStr THEN EmptyStr ELSE s

----------------------------------------------------------------------------
(* Characters: toLowerCase and UTF-16 code units *)

Upper == <<"A", "B", "C", "X", "Y">>

LowerOfUpper == <<"a", "b", "c", "x", "y">>

CodeOfLower == <<97, 98, 99, 120, 121>>

Digits == <<"0", "1", "2", "3", "4", "5", "6", "7", "8", "9">>

IndexIn(seq, c) == CHOOSE i \in 1..Len(seq) : seq[i] = c

InSeq(seq, c) == \E i \in 1..Len(seq) : seq[i] = c

LowerChar(c) == IF InSeq(Upper, c) THEN LowerOfUpper[IndexIn(Upper, c)] ELSE c

\* code unit of a symbol; digits 48..57, ':' 58, upper case 65.., lower case 97..
CharCode(c) ==
    IF InSeq(Digits, c) THEN 47 + IndexIn(Digits, c)
    ELSE IF c = ":" THEN 58
    ELSE IF InSeq(Upper, c) THEN CodeOfLower[IndexIn(Upper, c)] - 32
    ELSE IF InSeq(LowerOfUpper, c) THEN CodeOfLower[IndexIn(LowerOfUpper, c)]
    ELSE 122

\* String.prototype.toLowerCase
toLowerCase(s) == [i \in 1..Len(s) |-> LowerChar(s[i])]

\* String.prototype.includes
includes(s, sub) ==
    \E off \in 0..(Len(s) - Len(sub)) :
        \A k \in 1..Len(sub) : s[off + k] = sub[k]

\* the < operator on two strings: lexicographic on code units
RECURSIVE StrLess(_, _)
StrLess(s, t) ==
    IF t = <<>> THEN FALSE
    ELSE IF s = <<>> THEN TRUE
    ELSE IF CharCode(Head(s)) < CharCode(Head(t)) THEN TRUE
    ELSE IF CharCode(Head(s)) > CharCode(Head(t)) THEN FALSE
    ELSE StrLess(Tail(s), Tail(t))

\* parseInt(s): the value of the leading run of decimal digits, NaN if none
RECURSIVE DigitRun(_, _)
DigitRun(s, acc) ==
    IF s = <<>> \/ ~InSeq(Digits, Head(s)) THEN acc
    ELSE DigitRun(Tail(s), acc * 10 + (IndexIn(Digits, Head(s)) - 1))

parseInt(s) ==
    IF s = <<>> \/ ~InSeq(Digits, Head(s)) THEN NaN ELSE DigitRun(s, 0)

\* String(n) for a non-negative integer
RECURSIVE NumToStr(_)
NumToStr(n) ==
    IF n < 10 THEN <<Digits[n + 1]>>
    ELSE NumToStr(n \div 10) \o <<Digits[(n % 10) + 1]>>

\* a === b for a number-or-null a and a parseInt result b
StrictEqNum(a, b) == b # NaN /\ a # NullNum /\ a = b

----------------------------------------------------------------------------
(* Device records *)

NullTeardowns == <<[title |-> NullStr, url |-> NullStr, tags |-> {}]>>

Device(name, brand, score, teardowns, link) ==
    [name |-> name, brand |-> brand, repairability_score |-> score,
     teardown_urls |-> teardowns, link |-> link]

Td(title, tdUrl, tags) == [title |-> title, url |-> tdUrl, tags |-> tags]

\* const selId = `${d.name}__${d.brand ?? ''}`
selId(d) == d.name \o <<"_", "_">> \o Coalesce(d.brand)

----------------------------------------------------------------------------
(* Filter/sort engine: getFilteredData and sortData                        *)

\* the four DOM reads at the top of getFilteredData
Controls ==
    [search |-> searchInput, brand |-> brandFilter,
     score |-> scoreFilter, noscore |-> includeNoScore]

\* d.name.toLowerCase().includes(searchValue)
matchesSearch(d, ctl) == includes(toLowerCase(d.name), toLowerCase(ctl.search))

\* !brandValue || d.brand === brandValue
matchesBrand(d, ctl) == ctl.brand = EmptyStr \/ d.brand = ctl.brand

\* the score test with the parsed number, not the text, tested for falsiness:
\* a score filter of 0 then counts as unset
matchesScoreOnNumber(d, ctl) ==
    \/ ctl.score = EmptyStr
    \/ parseInt(ctl.score) = 0
    \/ StrictEqNum(d.repairability_score, parseInt(ctl.score))

\* !scoreFilter || d.repairability_score === parseInt(scoreFilter)
matchesScore(d, ctl) ==
    ctl.score = EmptyStr \/ StrictEqNum(d.repairability_score, parseInt(ctl.score))

\* includeNoScore ? true : (d.repairability_score != null)
hasScoreOk(d, ctl) == IF ctl.noscore THEN TRUE ELSE d.repairability_score # NullNum

keeps(d, ctl) ==
    matchesSearch(d, ctl) /\ matchesBrand(d, ctl) /\ matchesScore(d, ctl) /\ hasScoreOk(d, ctl)

\* a filter that removes in place while it iterates: the record after a
\* removed one is passed over
RECURSIVE FilterSeqSplicing(_, _)
FilterSeqSplicing(data, ctl) ==
    IF data = <<>> THEN <<>>
    ELSE IF keeps(Head(data), ctl)
    THEN <<Head(data)>> \o FilterSeqSplicing(Tail(data), ctl)
    ELSE IF Tail(data) = <<>> THEN <<>>
    ELSE <<Head(Tail(data))>> \o FilterSeqSplicing(Tail(Tail(data)), ctl)

\* devicesData.filter(d => ...)
RECURSIVE FilterSeq(_, _)
FilterSeq(data, ctl) ==
    IF data = <<>> THEN <<>>
    ELSE (IF keeps(Head(data), ctl) THEN <<Head(data)>> ELSE <<>>)
         \o FilterSeq(Tail(data), ctl)

getFilteredData(data, ctl) == FilterSeq(data, ctl)

KeyName == <<"name">>

KeyBrand == <<"brand">>

KeyScore == <<"repairability_score">>

KeyTeardown == <<"teardown">>

Asc == <<"asc">>

Desc == <<"desc">>

\* the data-sort-key values of the four sortable column headers
SortKeys == {KeyName, KeyBrand, KeyScore, KeyTeardown}

Directions == {Asc, Desc}

IsNumericKey(key) == key = KeyScore \/ key = KeyTeardown

\* A ?? 0: a sentinel that ties with the score 0
ScoreOrZero(v) == IF v = NullNum THEN 0 ELSE v

\* A ?? -1
ScoreOrSentinel(v) == IF v = NullNum THEN 0 - 1 ELSE v

\* Array.isArray(a.teardown_urls) ? a.teardown_urls.length : 0
TeardownCount(d) == IF d.teardown_urls = NullTeardowns THEN 0 ELSE Len(d.teardown_urls)

\* the numeric comparison key (lines 234-242)
NumKey(d, key) ==
    IF key = KeyTeardown THEN ScoreOrSentinel(TeardownCount(d))
    ELSE ScoreOrSentinel(d.repairability_score)

\* (a[key] || '').toString().toLowerCase(); an unknown key reads undefined
StrKey(d, key) ==
    IF key = KeyName THEN toLowerCase(OrEmpty(d.name))
    ELSE IF key = KeyBrand THEN toLowerCase(OrEmpty(d.brand))
    ELSE EmptyStr

KeyLess(a, b, key) ==
    IF IsNumericKey(key) THEN NumKey(a, key) < NumKey(b, key)
    ELSE StrLess(StrKey(a, key), StrKey(b, key))

\* the comparator handed to Array.prototype.sort (lines 232-250)
compare(a, b, sort) ==
    IF KeyLess(a, b, sort.key) THEN (IF sort.direction = Asc THEN 0 - 1 ELSE 1)
    ELSE IF KeyLess(b, a, sort.key) THEN (IF sort.direction = Asc THEN 1 ELSE 0 - 1)
    ELSE 0

\* Array.prototype.sort is a stable sort: x goes behind every element that
\* does not compare greater than it
RECURSIVE InsertSorted(_, _, _)
InsertSorted(sorted, x, sort) ==
    IF sorted = <<>> THEN <<x>>
    ELSE IF compare(sorted[Len(sorted)], x, sort) > 0
         THEN InsertSorted(SubSeq(sorted, 1, Len(sorted) - 1), x, sort)
              \o <<sorted[Len(sorted)]>>
         ELSE sorted \o <<x>>

RECURSIVE SortFrom(_, _, _)
SortFrom(sorted, rest, sort) ==
    IF rest = <<>> THEN sorted
    ELSE SortFrom(InsertSorted(sorted, Head(rest), sort), Tail(rest), sort)

Reverse(s) == [i \in 1..Len(s) |-> s[Len(s) + 1 - i]]

\* sorting ascending and reversing the array for a descending sort
sortDataByReversal(data, sort) ==
    IF sort.direction = Asc THEN SortFrom(<<>>, data, sort)
    ELSE Reverse(SortFrom(<<>>, data, [sort EXCEPT !.direction = Asc]))

sortData(data, sort) == SortFrom(<<>>, data, sort)

----------------------------------------------------------------------------
(* Sample data *)

MaxRecords == 3

T1 == Td(<<"T", "1">>, <<"b">>, {"archived"})

T2 == Td(<<"T", "2">>, <<"a">>, {})

\* the three records of the specification's scenarios, then records that tie
\* with them on each comparison key
Universe ==
    << Device(<<"A">>, <<"X">>, 9, <<T1, T2>>, 0),
       Device(<<"B">>, <<"Y">>, 3, <<>>, 0),
       Device(<<"C">>, <<"X">>, NullNum, NullTeardowns, 0),
       Device(<<"a", "b">>, NullStr, 0, <<T2>>, 0),
       Device(<<"a">>, <<"x">>, 10, NullTeardowns, 0),
       Device(<<"b">>, <<"Y">>, 3, <<T1>>, 0) >>

\* a dataset: the records picked by idx, each with its position as link
Dataset(idx) == [i \in 1..Len(idx) |-> [Universe[idx[i]] EXCEPT !.link = i]]

IndexSeqs(maxLen) == UNION {[1..n -> 1..Len(Universe)] : n \in 0..maxLen}

ScenarioData == Dataset(<<1, 2, 3>>)

----------------------------------------------------------------------------
(* Pure-function specification of the filter/sort engine                   *)

SearchTexts == {EmptyStr, <<"a">>, <<"B">>, <<"A", "B">>}

BrandChoices == {EmptyStr, <<"X">>, <<"Y">>}

ScoreChoices == {NullNum, 0, 3, 9}

\* a filter state as the data model declares it (scoreFilter an integer or unset)
FilterStates ==
    [searchText : SearchTexts, brand : BrandChoices,
     scoreFilter : ScoreChoices, includeUnscored : BOOLEAN]

DefaultFilter ==
    [searchText |-> EmptyStr, brand |-> EmptyStr,
     scoreFilter |-> NullNum, includeUnscored |-> FALSE]

DefaultSort == [key |-> KeyName, direction |-> Asc]

SortStates == [key : SortKeys, direction : Directions]

\* the control values holding a filter state: the hidden score input carries
\* String(score) (part_003:112-115)
ControlsOf(fs) ==
    [search |-> fs.searchText, brand |-> fs.brand,
     score |-> IF fs.scoreFilter = NullNum THEN EmptyStr ELSE NumToStr(fs.scoreFilter),
     noscore |-> fs.includeUnscored]

NoResult == [op |-> "none", rows |-> <<>>]

NoProbe == [kind |-> "none", data |-> <<>>, fs |-> DefaultFilter, sort |-> DefaultSort]

\* the probes of the engine: a dataset with a filter state, or with a sort
IsEngineProbe(p) ==
    \E idx \in IndexSeqs(MaxRecords) :
        \/ \E fs \in FilterStates :
               p = [kind |-> "filter", data |-> Dataset(idx), fs |-> fs,
                    sort |-> DefaultSort]
        \/ \E st \in SortStates :
               p = [kind |-> "sort", data |-> Dataset(idx), fs |-> DefaultFilter,
                    sort |-> st]

ApplyFilter ==
    /\ probe.kind = "filter"
    /\ result.op = "none"
    /\ result' = [op |-> "filter", rows |-> getFilteredData(probe.data, ControlsOf(probe.fs))]
    /\ UNCHANGED <<appVars, probe>>

ApplySort ==
    /\ probe.kind = "sort"
    /\ result.op = "none"
    /\ result' = [op |-> "sort", rows |-> sortData(probe.data, probe.sort)]
    /\ UNCHANGED <<appVars, probe>>

----------------------------------------------------------------------------
(* State/URL synchronizer: stateToQuery and queryToState                   *)

EmptyUrl ==
    [q |-> NullStr, brand |-> NullStr, sort |-> NullStr,
     score |-> NullStr, noscore |-> NullStr]

\* if (!params.get(k)) params.delete(k)
DropEmpty(v) == IF v = EmptyStr THEN NullStr ELSE v

\* `${currentSort.key}:${currentSort.direction}`
SortParam(sort) == sort.key \o <<":">> \o sort.direction

\* the parameters stateToQuery leaves in the query string (lines 814-825):
\* sort is always written, the other four are deleted when empty
stateToQuery(ctl, sort) ==
    [q |-> DropEmpty(ctl.search),
     brand |-> DropEmpty(ctl.brand),
     sort |-> SortParam(sort),
     score |-> DropEmpty(ctl.score),
     noscore |-> DropEmpty(IF ctl.noscore THEN <<"1">> ELSE EmptyStr)]

\* String.prototype.split(':')
RECURSIVE SplitColon(_, _, _)
SplitColon(s, cur, parts) ==
    IF s = <<>> THEN parts \o <<cur>>
    ELSE IF Head(s) = ":" THEN SplitColon(Tail(s), <<>>, parts \o <<cur>>)
    ELSE SplitColon(Tail(s), cur \o <<Head(s)>>, parts)

split(s) == SplitColon(s, <<>>, <<>>)

\* assigning select.value: the option with that value becomes selected; when
\* no option has it, none is selected and the value reads ''
SelectValue(options, v) == IF v \in options THEN v ELSE EmptyStr

\* lines 846-850
SortFromParam(sortStr, sort) ==
    IF ~InSeq(sortStr, ":") THEN sort
    ELSE LET parts == split(sortStr)
             key == parts[1]
             dir == parts[2]
             withKey == IF key # EmptyStr THEN [sort EXCEPT !.key = key] ELSE sort
         IN  IF dir = Asc \/ dir = Desc THEN [withKey EXCEPT !.direction = dir]
             ELSE withKey

\* queryToState read against the controls of a page (options: the options of
\* the brand <select>, score: the hidden score input, sort: currentSort)
queryToState(u, options, score, sort) ==
    [search |-> OrEmpty(u.q),
     brand |-> SelectValue(options, OrEmpty(u.brand)),
     score |-> IF OrEmpty(u.score) # EmptyStr THEN OrEmpty(u.score) ELSE score,
     noscore |-> (u.noscore = <<"1">>),
     sort |-> SortFromParam(OrEmpty(u.sort), sort)]

\* a toggle that keeps the previous direction when the key changes
toggleSortKeepingDirection(sort, key) ==
    IF sort.key = key
    THEN [sort EXCEPT !.direction = IF sort.direction = Asc THEN Desc ELSE Asc]
    ELSE [sort EXCEPT !.key = key]

\* toggleSort, lines 535-540
toggleSort(sort, key) ==
    IF sort.key = key
    THEN [sort EXCEPT !.direction = IF sort.direction = Asc THEN Desc ELSE Asc]
    ELSE [key |-> key, direction |-> Asc]

----------------------------------------------------------------------------
(* View renderer: renderTable, populateTable, populateBrandFilter, chart   *)

\* a view patched from the view of the previous render instead of the dataset
ViewPatched(raw, ctl, sort) ==
    sortData(getFilteredData(IF lastFiltered.defined THEN lastFiltered.rows ELSE raw,
                             ctl), sort)

\* let data = getFilteredData(); data = sortData(data)
View(raw, ctl, sort) == sortData(getFilteredData(raw, ctl), sort)

Skeleton == [kind |-> "skeleton", rows |-> <<>>, checked |-> <<>>]

ErrorRow == [kind |-> "error", rows |-> <<>>, checked |-> <<>>]

\* the rows populateTable builds; each row's checkbox starts checked iff its
\* id is selected (line 304)
populateTable(view, sel) ==
    IF view = <<>> THEN [kind |-> "empty", rows |-> <<>>, checked |-> <<>>]
    ELSE [kind |-> "rows", rows |-> view,
          checked |-> [i \in 1..Len(view) |-> selId(view[i]) \in sel]]

----------------------------------------------------------------------------
(* Overlays: the teardown portal of each populateTable call, the export    *)
(* menu and the info tooltip                                                *)

\* the closure of one populateTable call (lines 366-367): made when its
\* teardownPortalEl is set, show: the element's class, openFor: the row of
\* teardownPortalOpenFor (0 when null), frame: a requestAnimationFrame of
\* positionPortalRelativeToToggle is pending
NewClosure == [made |-> FALSE, show |-> FALSE, openFor |-> 0, frame |-> FALSE]

\* overlays.portals lists the closures whose element is in the document, in
\* document order
NoOverlays ==
    [closures |-> <<>>, portals |-> <<>>,
     exportPortal |-> FALSE, exportExpanded |-> FALSE,
     exportListeners |-> 0, exportTimers |-> 0,
     tip |-> "none", tipFrame |-> FALSE, tipExpanded |-> FALSE]

\* ensurePortal (lines 368-377) in closure c
ensurePortal(ov, c) ==
    IF ov.closures[c].made THEN ov
    ELSE [ov EXCEPT !.closures[c].made = TRUE, !.portals = Append(@, c)]

\* closePortal (lines 421-429) in closure c
closePortal(ov, c) ==
    [ensurePortal(ov, c) EXCEPT !.closures[c].show = FALSE,
                                !.closures[c].openFor = 0]

\* openPortal (lines 410-419) in closure c for the toggle of row t
openPortal(ov, c, t) ==
    [closePortal(ov, c) EXCEPT !.closures[c].show = TRUE,
                               !.closures[c].frame = TRUE,
                               !.closures[c].openFor = t]

\* document.querySelector('.teardown-portal') has the class show
FirstPortalShown(ov) ==
    ov.portals # <<>> /\ ov.closures[Head(ov.portals)].show

\* clickOutsideHandler (lines 461-469) of the closures 1..n in turn, for a
\* click outside every portal and toggle
RECURSIVE ClickOutsidePortals(_, _)
ClickOutsidePortals(ov, n) ==
    IF n = 0 THEN ov
    ELSE LET before == ClickOutsidePortals(ov, n - 1)
         IN  IF FirstPortalShown(before) THEN closePortal(before, n) ELSE before

\* the document keydown listener (lines 472-476) of the closures 1..n in turn
RECURSIVE EscapePortals(_, _)
EscapePortals(ov, n) ==
    IF n = 0 THEN ov ELSE closePortal(EscapePortals(ov, n - 1), n)

\* closeExportMenu (lines 1185-1191)
closeExportMenu(ov) == [ov EXCEPT !.exportPortal = FALSE, !.exportExpanded = FALSE]

\* openExportMenu (lines 1193-1235): the document listeners are added by a
\* setTimeout(..., 0)
openExportMenu(ov) ==
    [closeExportMenu(ov) EXCEPT !.exportPortal = TRUE, !.exportExpanded = TRUE,
                                !.exportTimers = @ + 1]

\* the onDocClick listeners (lines 1219-1226) for a click outside the menu:
\* the first one closes the menu and removes its pair of listeners
ClickOutsideExport(ov) ==
    IF ov.exportPortal /\ ov.exportListeners > 0
    THEN [closeExportMenu(ov) EXCEPT !.exportListeners = @ - 1]
    ELSE ov

\* the onKey listeners (lines 1227-1233): each closes and removes its pair
EscapeExport(ov) ==
    IF ov.exportListeners > 0
    THEN [closeExportMenu(ov) EXCEPT !.exportListeners = 0]
    ELSE ov

\* closeTip (lines 1148-1152)
closeTip(ov) ==
    IF ov.tip = "none" THEN ov
    ELSE [ov EXCEPT !.tip = "hidden", !.tipExpanded = FALSE]

\* openTip (lines 1142-1146): the class show is added by a
\* requestAnimationFrame of positionTip
openTip(ov) ==
    [ov EXCEPT !.tip = IF @ = "none" THEN "hidden" ELSE @,
               !.tipFrame = TRUE, !.tipExpanded = TRUE]

\* the document click listener of the tooltip (lines 1158-1162)
ClickOutsideTip(ov) == IF ov.tip = "shown" THEN closeTip(ov) ELSE ov

\* the document click listeners, for a click that reaches the document from
\* a target outside the portals, the toggles, the export menu and the tooltip
DocumentClick(ov) ==
    ClickOutsideTip(ClickOutsideExport(ClickOutsidePortals(ov, Len(ov.closures))))

\* renderTable, lines 589-593, then the closure of populateTable (none for an
\* empty view, line 274)
AfterRender(ov, view) ==
    LET removed == [ov EXCEPT !.portals = IF @ = <<>> THEN @ ELSE Tail(@)]
    IN  IF view = <<>> THEN removed
        ELSE [removed EXCEPT !.closures = Append(@, NewClosure)]

\* the background animation before the script has run
NoBg == [phase |-> "parsed", hidden |-> FALSE, prefersReducedMotion |-> FALSE,
         width |-> "wide", particles |-> 0, animateBG |-> TRUE,
         bgRafId |-> "null", scheduled |-> 0, drawn |-> 0]

\* Number.isFinite(s)
isFinite(s) == s # NullNum /\ s # NaN

\* injectStructuredData (lines 549-585): the rating is NullNum where the
\* aggregateRating block is left out
NoJsonLd == [defined |-> FALSE, items |-> <<>>]

\* the list mapped without slice(0, max)
injectStructuredDataUncut(list) ==
    [defined |-> TRUE,
     items |-> [i \in 1..Len(list) |->
                   [position |-> i, name |-> list[i].name, brand |-> list[i].brand,
                    link |-> list[i].link,
                    rating |-> IF isFinite(list[i].repairability_score)
                               THEN list[i].repairability_score ELSE NullNum]]]

injectStructuredData(list) ==
    [defined |-> TRUE,
     items |-> [i \in 1..(IF Len(list) < 25 THEN Len(list) ELSE 25) |->
                   [position |-> i, name |-> list[i].name, brand |-> list[i].brand,
                    link |-> list[i].link,
                    rating |-> IF isFinite(list[i].repairability_score)
                               THEN list[i].repairability_score ELSE NullNum]]]

\* a render whose sortData sorts the dataset itself
DatasetSortedInPlace(raw, ctl, sort) == sortData(raw, sort)

\* the dataset after a render pass (lines 597-598): devicesData.filter(...)
\* returns a new array, and it is this array that sortData sorts in place
DatasetAfterRender(raw, ctl, sort) == raw

\* renderTable up to injectStructuredData, without the overlays, on the
\* dataset raw that devicesData holds when it runs
RenderCore(raw, ctl, sort, sel) ==
    LET view == View(raw, ctl, sort)
    IN  /\ devicesData' = DatasetAfterRender(raw, ctl, sort)
        /\ lastFiltered' = [defined |-> TRUE, rows |-> view]
        /\ jsonLd' = injectStructuredData(view)
        /\ bg' = bg
        /\ deviceCount' = IF view = <<>> THEN deviceCount ELSE Len(view)
        /\ renderInputs' = [data |-> raw, ctl |-> ctl, sort |-> sort]
        /\ tbody' = populateTable(view, sel)
        /\ wirePending' = (view # <<>>)
        /\ drawer' = IF view = <<>> THEN drawer ELSE Cardinality(sel)

\* renderTable called from a handler that is no click (a timer, a change
\* event, loadData)
RenderTable(raw, ctl, sort, sel) ==
    /\ RenderCore(raw, ctl, sort, sel)
    /\ overlays' = AfterRender(overlays, View(raw, ctl, sort))

\* renderTable called from a click handler: the click then reaches the
\* document listeners, those of the new populateTable call included
RenderTableOnClick(raw, ctl, sort, sel) ==
    /\ RenderCore(raw, ctl, sort, sel)
    /\ overlays' = DocumentClick(AfterRender(overlays, View(raw, ctl, sort)))

\* [...new Set(devicesData.map(d => d.brand).filter(Boolean))]
BrandsOf(data) ==
    {data[i].brand : i \in {j \in 1..Len(data) :
                               data[j].brand # NullStr /\ data[j].brand # EmptyStr}}

\* select.innerHTML = '<option value="">All manufacturers</option>' + one
\* option per brand; replacing the options selects the first one
populateBrandFilter(data) == {EmptyStr} \cup BrandsOf(data)

FreshBrandOptions == {EmptyStr}

\* a score of 7.5: a number in the range of the chart that is no integer
SevenAndAHalf == 0 - 997

\* Number.isInteger(s): false for null, NaN and a fractional number
isInteger(s) == s # NullNum /\ s # NaN /\ s # SevenAndAHalf

\* s >= 0 && s <= 10: null compares as 0, NaN compares false
InChartRange(s) ==
    IF s = NullNum \/ s = SevenAndAHalf THEN TRUE
    ELSE IF s = NaN THEN FALSE
    ELSE s >= 0 /\ s <= 10

\* Array(11).fill(0); the bucket of score s is element s + 1
ZeroBuckets == [b \in 1..11 |-> 0]

\* a count that converts the score to a number first (null counts as 0)
CountScoreCoerced(buckets, s) ==
    LET n == IF s = NullNum THEN 0 ELSE s
    IN  IF n >= 0 /\ n <= 10 THEN [buckets EXCEPT ![n + 1] = @ + 1] ELSE buckets

\* the body of the forEach (part_003:23-26)
CountScore(buckets, s) ==
    IF isInteger(s) /\ InChartRange(s)
    THEN [buckets EXCEPT ![s + 1] = @ + 1]
    ELSE buckets

\* the buckets after data.forEach over the first n records
RECURSIVE BucketsUpTo(_, _)
BucketsUpTo(data, n) ==
    IF n = 0 THEN ZeroBuckets
    ELSE CountScore(BucketsUpTo(data, n - 1), data[n].repairability_score)

\* the histogram of renderChart (part_003:22-26)
Buckets(data) == BucketsUpTo(data, Len(data))

NoChart == [drawn |-> FALSE, data |-> <<>>]

\* ChartModule.renderChart (part_003:10-38) on st = [chart, err]
renderChart(st, data) ==
    IF data = <<>> THEN [chart |-> st.chart, err |-> TRUE]
    ELSE [chart |-> [drawn |-> TRUE, data |-> data], err |-> FALSE]

RECURSIVE RunCharts(_, _)
RunCharts(st, datas) ==
    IF datas = <<>> THEN st
    ELSE RunCharts(renderChart(st, Head(datas)), Tail(datas))

\* of a queue of renderChart arguments only the last non-empty one and a
\* trailing empty one decide the outcome
RECURSIVE LastNonEmpty(_)
LastNonEmpty(datas) ==
    IF datas = <<>> THEN <<>>
    ELSE IF datas[Len(datas)] # <<>> THEN <<datas[Len(datas)]>>
    ELSE LastNonEmpty(SubSeq(datas, 1, Len(datas) - 1))

Compress(datas) ==
    IF datas = <<>> THEN <<>>
    ELSE IF datas[Len(datas)] # <<>> THEN <<datas[Len(datas)]>>
    ELSE LastNonEmpty(datas) \o << <<>> >>

\* loadChartModuleIdle().then(() => renderChart(data)) for each data of datas,
\* registered by a handler that leaves #chartError at err0
ChartAfter(datas, err0) ==
    IF datas = <<>> \/ chartModule = "failed"
    THEN /\ chartError' = err0
         /\ UNCHANGED <<chart, chartPending>>
    ELSE IF chartModule = "ready"
    THEN LET st == RunCharts([chart |-> chart, err |-> err0], datas)
         IN  /\ chart' = st.chart
             /\ chartError' = st.err
             /\ UNCHANGED chartPending
    ELSE /\ chartPending' = Compress(chartPending \o datas)
         /\ chartError' = err0
         /\ UNCHANGED chart

----------------------------------------------------------------------------
(* Data store: loadData                                                    *)

\* the loads whose fetch has not settled
Inflight == {id \in 1..Len(loads) : loads[id] = "awaiting"}

NoCache == [kind |-> "none", data |-> <<>>]

CorruptCache == [kind |-> "corrupt", data |-> <<>>]

JsonCache(data) == [kind |-> "json", data |-> data]

\* a loadData that goes to its fetch without rendering the cached dataset
LoadDataFetchFirst(ctl, opts, sort, sel) ==
    /\ loads' = Append(loads, "awaiting")
    /\ tbody' = Skeleton
    /\ chartError' = FALSE
    /\ brandFilter' = ctl.brand
    /\ brandOptions' = opts
    /\ UNCHANGED <<devicesData, lastFiltered, renderInputs, overlays, jsonLd, bg, deviceCount, wirePending,
                   drawer, chart, chartPending>>

\* loadData up to its await (lines 163-196), called with the controls ctl,
\* the brand options opts, the sort and the selection in force.  A cached
\* payload that does not parse makes JSON.parse throw outside any try block:
\* the call rejects before fetch is reached.  The chart callback reads
\* devicesData when it runs: that is the cached dataset, unless the fetch
\* has succeeded meanwhile, and then the callback of the fetched document
\* follows it.
LoadData(ctl, opts, sort, sel) ==
    IF storage.kind = "corrupt"
    THEN /\ loads' = Append(loads, "threw")
         /\ tbody' = Skeleton
         /\ chartError' = FALSE
         /\ brandFilter' = ctl.brand
         /\ brandOptions' = opts
         /\ UNCHANGED <<devicesData, lastFiltered, renderInputs, overlays, jsonLd, bg, deviceCount, wirePending,
                        drawer, chart, chartPending>>
    ELSE IF storage.kind = "none"
    THEN /\ loads' = Append(loads, "awaiting")
         /\ tbody' = Skeleton
         /\ chartError' = FALSE
         /\ brandFilter' = ctl.brand
         /\ brandOptions' = opts
         /\ UNCHANGED <<devicesData, lastFiltered, renderInputs, overlays, jsonLd, bg, deviceCount, wirePending,
                        drawer, chart, chartPending>>
    ELSE /\ loads' = Append(loads, "awaiting")
         /\ RenderTable(storage.data, ctl, sort, sel)
         /\ brandOptions' = populateBrandFilter(storage.data)
         /\ brandFilter' = EmptyStr
         /\ ChartAfter(<<View(storage.data, ctl, sort), storage.data>>, FALSE)

\* the DOMContentLoaded handler (lines 1005-1424): queryToState(), loadData()
\* and the wiring of the listeners
DOMContentLoaded ==
    /\ page = "parsed"
    /\ page' = "ready"
    /\ chartModule' = "loading"
    /\ LET q == queryToState(url, brandOptions, scoreFilter, currentSort)
           ctl == [search |-> q.search, brand |-> q.brand,
                   score |-> q.score, noscore |-> q.noscore]
       IN  /\ searchInput' = q.search
           /\ scoreFilter' = q.score
           /\ includeNoScore' = q.noscore
           /\ currentSort' = q.sort
           /\ LoadData(ctl, brandOptions, q.sort, selectedForCompare)
    /\ UNCHANGED <<storage, selectedForCompare, actionLive, url, debounceTimer,
                   compareModal, env, probe, result>>

\* the continuation of loadData after a successful fetch (lines 198-206)
FetchOk(id, doc) ==
    /\ id \in Inflight
    /\ loads' = [loads EXCEPT ![id] = "ok"]
    /\ storage' = JsonCache(doc)
    /\ RenderTable(doc, Controls, currentSort, selectedForCompare)
    /\ brandOptions' = populateBrandFilter(doc)
    /\ brandFilter' = EmptyStr
    /\ ChartAfter(<<View(doc, Controls, currentSort), doc>>, chartError)
    /\ UNCHANGED <<searchInput, scoreFilter, includeNoScore, currentSort,
                   selectedForCompare, actionLive, url, debounceTimer, page, chartModule, compareModal, env, probe, result>>

\* a catch block that reports the failure and calls loadData again, once
FetchFailRetry(id) ==
    /\ id \in Inflight
    /\ loads' = IF Len(loads) < 2
                THEN Append([loads EXCEPT ![id] = "failed"], "awaiting")
                ELSE [loads EXCEPT ![id] = "failed"]
    /\ tbody' = ErrorRow
    /\ chartError' = TRUE
    /\ UNCHANGED <<devicesData, storage, searchInput, brandFilter, brandOptions,
                   scoreFilter, includeNoScore, currentSort, selectedForCompare,
                   lastFiltered, renderInputs, overlays, jsonLd, bg, deviceCount, wirePending, actionLive, url,
                   debounceTimer, page, drawer, chartModule,
                   chartPending, chart, compareModal, env, probe, result>>

\* a catch block that only logs the failure
FetchFailSilent(id) ==
    /\ id \in Inflight
    /\ loads' = [loads EXCEPT ![id] = "failed"]
    /\ UNCHANGED <<devicesData, storage, searchInput, brandFilter, brandOptions,
                   scoreFilter, includeNoScore, currentSort, selectedForCompare,
                   lastFiltered, renderInputs, overlays, jsonLd, bg, deviceCount, tbody, wirePending, chartError,
                   actionLive, url, debounceTimer, page, drawer, chartModule,
                   chartPending, chart, compareModal, env, probe, result>>

\* the catch block of loadData (lines 207-211): the fetch rejected, the
\* status was not ok, or the body did not parse
FetchFail(id) ==
    /\ id \in Inflight
    /\ loads' = [loads EXCEPT ![id] = "failed"]
    /\ tbody' = ErrorRow
    /\ chartError' = TRUE
    /\ UNCHANGED <<devicesData, storage, searchInput, brandFilter, brandOptions,
                   scoreFilter, includeNoScore, currentSort, selectedForCompare,
                   lastFiltered, renderInputs, overlays, jsonLd, bg, deviceCount, wirePending, actionLive, url,
                   debounceTimer, page, drawer, chartModule,
                   chartPending, chart, compareModal, env, probe, result>>

\* the chartModuleReady promise resolves true: the queued callbacks run
ChartModuleLoaded ==
    /\ chartModule = "loading"
    /\ chartModule' = "ready"
    /\ LET st == RunCharts([chart |-> chart, err |-> chartError], chartPending)
       IN  /\ chart' = st.chart
           /\ chartError' = st.err
    /\ chartPending' = <<>>
    /\ UNCHANGED <<devicesData, storage, searchInput, brandFilter, brandOptions,
                   scoreFilter, includeNoScore, currentSort, selectedForCompare,
                   lastFiltered, renderInputs, overlays, jsonLd, bg, deviceCount, tbody, wirePending, actionLive,
                   url, debounceTimer, loads, page, drawer,
                   compareModal, env, probe, result>>

\* the promise resolves false (s.onerror): the callbacks find no ChartModule
ChartModuleFailed ==
    /\ chartModule = "loading"
    /\ chartModule' = "failed"
    /\ chartPending' = <<>>
    /\ UNCHANGED <<devicesData, storage, searchInput, brandFilter, brandOptions,
                   scoreFilter, includeNoScore, currentSort, selectedForCompare,
                   lastFiltered, renderInputs, overlays, jsonLd, bg, deviceCount, tbody, wirePending, chartError,
                   actionLive, url, debounceTimer, loads, page, drawer, chart, compareModal, env, probe, result>>

----------------------------------------------------------------------------
(* User input handlers of part_000                                         *)

\* a debounce that sets a timer without clearing the pending one
debounceWithoutClear(pending) == pending + 1

\* the function debounce returns (lines 806-809), on the number of pending
\* timers: clearTimeout(t) cancels the one of the previous call, setTimeout
\* sets a new one
debounce(pending) == (IF pending > 0 THEN pending - 1 ELSE 0) + 1

\* an input event on #searchInput: debounce() restarts its timer
SearchInput(text) ==
    /\ page = "ready"
    /\ text # searchInput
    /\ searchInput' = text
    /\ debounceTimer' = debounce(debounceTimer)
    /\ UNCHANGED <<devicesData, storage, brandFilter, brandOptions, scoreFilter,
                   includeNoScore, currentSort, selectedForCompare, lastFiltered,
                   renderInputs, overlays, jsonLd, bg, deviceCount, tbody, wirePending, chartError, actionLive, url,
                   loads, page, drawer, chartModule,
                   chartPending, chart, compareModal, env, probe, result>>

\* the debounced callback (lines 1039-1048)
DebounceFire ==
    /\ debounceTimer > 0
    /\ debounceTimer' = debounceTimer - 1
    /\ RenderTable(devicesData, Controls, currentSort, selectedForCompare)
    /\ ChartAfter(<<View(devicesData, Controls, currentSort)>>, chartError)
    /\ url' = stateToQuery(Controls, currentSort)
    /\ actionLive' = "search"
    /\ UNCHANGED <<storage, searchInput, brandFilter, brandOptions,
                   scoreFilter, includeNoScore, currentSort, selectedForCompare,
                   loads, page, chartModule, compareModal, env, probe,
                   result>>

\* change on #brandFilter (lines 1050-1055)
BrandChange(b) ==
    /\ page = "ready"
    /\ b \in brandOptions
    /\ b # brandFilter
    /\ brandFilter' = b
    /\ LET ctl == [Controls EXCEPT !.brand = b]
       IN  /\ RenderTable(devicesData, ctl, currentSort, selectedForCompare)
           /\ ChartAfter(<<View(devicesData, ctl, currentSort)>>, chartError)
           /\ url' = stateToQuery(ctl, currentSort)
    /\ actionLive' = "brand"
    /\ UNCHANGED <<storage, searchInput, brandOptions, scoreFilter,
                   includeNoScore, currentSort, selectedForCompare, debounceTimer,
                   loads, page, chartModule, compareModal, env, probe,
                   result>>

\* a switch handler that drops from the selection the ids of the devices its
\* render no longer lists
SegClickPruning(includeNo) ==
    /\ page = "ready"
    /\ includeNoScore' = includeNo
    /\ LET ctl == [Controls EXCEPT !.noscore = includeNo]
           view == View(devicesData, ctl, currentSort)
           kept == {id \in selectedForCompare :
                       \E i \in 1..Len(view) : selId(view[i]) = id}
       IN  /\ selectedForCompare' = kept
           /\ RenderTableOnClick(devicesData, ctl, currentSort, kept)
           /\ url' = stateToQuery(ctl, currentSort)
    /\ ChartAfter(<<>>, chartError)
    /\ actionLive' = IF includeNo THEN "include" ELSE "exclude"
    /\ UNCHANGED <<storage, searchInput, brandFilter, brandOptions,
                   scoreFilter, currentSort, debounceTimer,
                   loads, page, chartModule, compareModal, env, probe,
                   result>>

\* click on #segScored (includeNo = FALSE) or #segAll (TRUE), lines 1087-1098
SegClick(includeNo) ==
    /\ page = "ready"
    /\ includeNoScore' = includeNo
    /\ LET ctl == [Controls EXCEPT !.noscore = includeNo]
       IN  /\ RenderTableOnClick(devicesData, ctl, currentSort, selectedForCompare)
           /\ url' = stateToQuery(ctl, currentSort)
    /\ ChartAfter(<<>>, chartError)
    /\ actionLive' = IF includeNo THEN "include" ELSE "exclude"
    /\ UNCHANGED <<storage, searchInput, brandFilter, brandOptions,
                   scoreFilter, currentSort, selectedForCompare, debounceTimer,
                   loads, page, chartModule, compareModal, env, probe,
                   result>>

\* click (or Enter/Space) on a sortable column header (lines 1410-1421)
SortHeaderClick(key) ==
    /\ page = "ready"
    /\ currentSort' = toggleSort(currentSort, key)
    /\ RenderTableOnClick(devicesData, Controls, currentSort', selectedForCompare)
    /\ ChartAfter(<<View(devicesData, Controls, currentSort')>>, chartError)
    /\ url' = stateToQuery(Controls, currentSort')
    /\ actionLive' = "sorted"
    /\ UNCHANGED <<storage, searchInput, brandFilter, brandOptions,
                   scoreFilter, includeNoScore, selectedForCompare, debounceTimer,
                   loads, page, chartModule, compareModal, env, probe,
                   result>>

\* the score chip exists when the last render found a score filter
\* (renderActiveFiltersChip, lines 872-887)
ScoreChipShown == lastFiltered.defined /\ renderInputs.ctl.score # EmptyStr

\* click on the chip's clear button (lines 879-884)
ChipClearClick ==
    /\ page = "ready"
    /\ ScoreChipShown
    /\ scoreFilter' = EmptyStr
    /\ LET ctl == [Controls EXCEPT !.score = EmptyStr]
       IN  /\ RenderTableOnClick(devicesData, ctl, currentSort, selectedForCompare)
           /\ ChartAfter(<<View(devicesData, ctl, currentSort)>>, chartError)
           /\ url' = stateToQuery(ctl, currentSort)
    /\ actionLive' = "score-cleared"
    /\ UNCHANGED <<storage, searchInput, brandFilter, brandOptions,
                   includeNoScore, currentSort, selectedForCompare, debounceTimer,
                   loads, page, chartModule, compareModal, env, probe,
                   result>>

\* the histogram has a bar of positive height for this score
HasBar(score) ==
    /\ chart.drawn
    /\ \E i \in 1..Len(chart.data) : chart.data[i].repairability_score = score

\* onClick of the chart on the bar of a score (part_003:104-121)
ChartBarClick(score) ==
    /\ page = "ready"
    /\ HasBar(score)
    /\ searchInput' = EmptyStr
    /\ brandFilter' = SelectValue(brandOptions, EmptyStr)
    /\ scoreFilter' = NumToStr(score)
    /\ LET ctl == [search |-> EmptyStr, brand |-> SelectValue(brandOptions, EmptyStr),
                   score |-> NumToStr(score), noscore |-> includeNoScore]
       IN  /\ RenderTableOnClick(devicesData, ctl, currentSort, selectedForCompare)
           /\ ChartAfter(<<View(devicesData, ctl, currentSort)>>, chartError)
           /\ url' = stateToQuery(ctl, currentSort)
    /\ actionLive' = "score"
    /\ UNCHANGED <<storage, brandOptions, includeNoScore, currentSort,
                   selectedForCompare, debounceTimer, loads, page, chartModule, compareModal, env, probe, result>>

\* the setTimeout(..., 0) callbacks of populateTable attach the change
\* listeners of the row checkboxes (lines 317-358)
WireCheckboxes ==
    /\ wirePending
    /\ wirePending' = FALSE
    /\ UNCHANGED <<devicesData, storage, searchInput, brandFilter, brandOptions,
                   scoreFilter, includeNoScore, currentSort, selectedForCompare,
                   lastFiltered, renderInputs, overlays, jsonLd, bg, deviceCount, tbody, chartError, actionLive, url,
                   debounceTimer, loads, page, drawer,
                   chartModule, chartPending, chart, compareModal, env, probe, result>>

\* a capacity test that lets the set grow to MAX_COMPARE + 1
OverCapacity(sel) == Cardinality(sel) > MAX_COMPARE

\* selectedForCompare.size >= MAX_COMPARE (line 322)
AtCapacity(sel) == Cardinality(sel) >= MAX_COMPARE

\* the user clicks the checkbox of row i: the browser flips it and the change
\* listener runs (lines 320-356)
CheckboxChange(i) ==
    /\ tbody.kind = "rows"
    /\ ~wirePending
    /\ i \in 1..Len(tbody.rows)
    /\ LET id == selId(tbody.rows[i])
           nowChecked == ~tbody.checked[i]
           full == AtCapacity(selectedForCompare)
       IN  IF nowChecked /\ full
           THEN /\ tbody' = [tbody EXCEPT !.checked[i] = FALSE]
                /\ actionLive' = "limit"
                /\ drawer' = Cardinality(selectedForCompare)
                /\ UNCHANGED selectedForCompare
           ELSE /\ selectedForCompare' =
                       IF nowChecked THEN selectedForCompare \cup {id}
                       ELSE selectedForCompare \ {id}
                /\ tbody' = [tbody EXCEPT !.checked[i] = nowChecked]
                /\ drawer' = Cardinality(selectedForCompare')
                /\ UNCHANGED actionLive
    /\ UNCHANGED <<devicesData, storage, searchInput, brandFilter, brandOptions,
                   scoreFilter, includeNoScore, currentSort, lastFiltered,
                   renderInputs, jsonLd, bg, deviceCount, wirePending, chartError, url, debounceTimer,
                   loads, page, chartModule, chartPending,
                   chart, compareModal, env, probe, result>>
    /\ overlays' = DocumentClick(overlays)

\* a reset handler without the line that resets currentSort
ResetClickKeepingSort ==
    /\ page = "ready"
    /\ searchInput' = EmptyStr
    /\ brandFilter' = SelectValue(brandOptions, EmptyStr)
    /\ scoreFilter' = EmptyStr
    /\ includeNoScore' = FALSE
    /\ selectedForCompare' = {}
    /\ LET ctl == [search |-> EmptyStr, brand |-> SelectValue(brandOptions, EmptyStr),
                   score |-> EmptyStr, noscore |-> FALSE]
       IN  /\ RenderTableOnClick(devicesData, ctl, currentSort, {})
           /\ ChartAfter(<<View(devicesData, ctl, currentSort)>>, chartError)
           /\ url' = stateToQuery(ctl, currentSort)
    /\ actionLive' = "reset"
    /\ UNCHANGED <<storage, brandOptions, currentSort, debounceTimer, loads,
                   page, chartModule, compareModal, env, probe, result>>

\* click on #resetFilters (lines 1264-1290)
ResetClick ==
    /\ page = "ready"
    /\ searchInput' = EmptyStr
    /\ brandFilter' = SelectValue(brandOptions, EmptyStr)
    /\ scoreFilter' = EmptyStr
    /\ includeNoScore' = FALSE
    /\ currentSort' = DefaultSort
    /\ selectedForCompare' = {}
    /\ LET ctl == [search |-> EmptyStr, brand |-> SelectValue(brandOptions, EmptyStr),
                   score |-> EmptyStr, noscore |-> FALSE]
       IN  /\ RenderTableOnClick(devicesData, ctl, DefaultSort, {})
           /\ ChartAfter(<<View(devicesData, ctl, DefaultSort)>>, chartError)
           /\ url' = stateToQuery(ctl, DefaultSort)
    /\ actionLive' = "reset"
    /\ UNCHANGED <<storage, brandOptions, debounceTimer, loads,
                   page, chartModule, compareModal, env, probe, result>>

NoModal == [shown |-> FALSE, items |-> <<>>]

\* the first n elements of a sequence: Array.prototype.slice(0, n)
Slice(s, n) == SubSeq(s, 1, IF Len(s) < n THEN Len(s) ELSE n)

RECURSIVE FilterSelected(_, _)
FilterSelected(all, sel) ==
    IF all = <<>> THEN <<>>
    ELSE (IF selId(Head(all)) \in sel THEN <<Head(all)>> ELSE <<>>)
         \o FilterSelected(Tail(all), sel)

\* window.lastFiltered || getFilteredData() (line 1300)
CompareSource ==
    IF lastFiltered.defined THEN lastFiltered.rows
    ELSE getFilteredData(devicesData, Controls)

\* selectedRows without the slice
selectedRowsUncut(all, sel) == FilterSelected(all, sel)

\* selectedRows (lines 1298-1303)
selectedRows(all, sel) == Slice(FilterSelected(all, sel), 5)

\* #compareBtn is enabled when refreshDrawer last counted two ids or more
\* (lines 257-270)
CompareEnabled == drawer >= 2

\* click on #compareBtn (lines 1347-1357)
CompareClick ==
    /\ page = "ready"
    /\ CompareEnabled
    /\ LET items == selectedRows(CompareSource, selectedForCompare)
       IN  IF Len(items) >= 2
           THEN /\ compareModal' = [shown |-> TRUE, items |-> items]
                /\ actionLive' = IF Cardinality(selectedForCompare) > MAX_COMPARE
                                 THEN "showing-first" ELSE actionLive
           ELSE /\ actionLive' = "need-two"
                /\ UNCHANGED compareModal
    /\ UNCHANGED <<devicesData, storage, searchInput, brandFilter, brandOptions,
                   scoreFilter, includeNoScore, currentSort, selectedForCompare,
                   lastFiltered, renderInputs, jsonLd, bg, deviceCount, tbody, wirePending, chartError,
                   url, debounceTimer, loads, page, drawer, chartModule,
                   chartPending, chart, env, probe, result>>
    /\ overlays' = DocumentClick(overlays)

\* click on #cmpClose or on the backdrop, or Escape (lines 1332-1343)
CompareClose ==
    /\ compareModal.shown
    /\ compareModal' = [compareModal EXCEPT !.shown = FALSE]
    /\ UNCHANGED <<devicesData, storage, searchInput, brandFilter, brandOptions,
                   scoreFilter, includeNoScore, currentSort, selectedForCompare,
                   lastFiltered, renderInputs, jsonLd, bg, deviceCount, tbody, wirePending, chartError,
                   actionLive, url, debounceTimer, loads, page, drawer,
                   chartModule, chartPending, chart, env, probe, result>>
    /\ overlays' = DocumentClick(overlays)

\* click on #clearCompare, a button of the drawer (lines 1358-1362)
ClearCompareClick ==
    /\ page = "ready"
    /\ drawer > 0
    /\ selectedForCompare' = {}
    /\ RenderTableOnClick(devicesData, Controls, currentSort, {})
    /\ ChartAfter(<<View(devicesData, Controls, currentSort)>>, chartError)
    /\ actionLive' = "selection-cleared"
    /\ UNCHANGED <<storage, searchInput, brandFilter, brandOptions,
                   scoreFilter, includeNoScore, currentSort, url, debounceTimer,
                   loads, page, chartModule, compareModal, env, probe,
                   result>>

----------------------------------------------------------------------------
(* The page of part_000                                                    *)

DocSmall == Dataset(<<2, 4>>)

DocAll == Dataset(<<1, 2, 3, 4, 5, 6>>)

SharedUrl ==
    [q |-> <<"a">>, brand |-> <<"X">>, sort |-> SortParam([key |-> KeyScore, direction |-> Desc]),
     score |-> <<"9">>, noscore |-> <<"1">>]

MaxGestures == 3

MainEnv ==
    [docs |-> {ScenarioData},
     texts |-> {EmptyStr, <<"a">>},
     urls |-> {EmptyUrl, SharedUrl},
     caches |-> {NoCache, CorruptCache, JsonCache(DocSmall)},
     budget |-> MaxGestures]

\* the page as parsed, before DOMContentLoaded
Parsed(e) ==
    /\ env = e
    /\ url \in e.urls
    /\ storage \in e.caches
    /\ devicesData = <<>>
    /\ searchInput = EmptyStr
    /\ brandFilter = EmptyStr
    /\ brandOptions = FreshBrandOptions
    /\ scoreFilter = EmptyStr
    /\ includeNoScore = FALSE
    /\ currentSort = DefaultSort
    /\ selectedForCompare = {}
    /\ lastFiltered = [defined |-> FALSE, rows |-> <<>>]
    /\ renderInputs = [data |-> <<>>, ctl |-> ControlsOf(DefaultFilter), sort |-> DefaultSort]
    /\ tbody = [kind |-> "initial", rows |-> <<>>, checked |-> <<>>]
    /\ wirePending = FALSE
    /\ chartError = FALSE
    /\ actionLive = ""
    /\ debounceTimer = 0
    /\ loads = <<>>
    /\ page = "parsed"
    /\ drawer = 0
    /\ chartModule = "unloaded"
    /\ chartPending = <<>>
    /\ chart = NoChart
    /\ compareModal = NoModal
    /\ overlays = NoOverlays
    /\ jsonLd = NoJsonLd
    /\ bg = NoBg
    /\ deviceCount = NullNum
    /\ gestures = 0

\* a step of the page that is not a user gesture
Event(A) == A /\ UNCHANGED gestures

\* a user gesture; the environment makes at most env.budget of them
Gesture(A) == gestures < env.budget /\ gestures' = gestures + 1 /\ A

\* a user gesture that only dismisses an overlay; the budget leaves these out
Dismiss(A) == A /\ UNCHANGED gestures

Init ==
    /\ Parsed(MainEnv)
    /\ probe = NoProbe
    /\ result = NoResult

Next ==
    \/ Event(DOMContentLoaded)
    \/ Event(\E id \in Inflight, doc \in env.docs : FetchOk(id, doc))
    \/ Event(\E id \in Inflight : FetchFail(id))
    \/ Event(ChartModuleLoaded)
    \/ Event(ChartModuleFailed)
    \/ Event(DebounceFire)
    \/ Event(WireCheckboxes)
    \/ Gesture(\E text \in env.texts : SearchInput(text))
    \/ Gesture(\E b \in brandOptions : BrandChange(b))
    \/ Gesture(\E includeNo \in BOOLEAN : SegClick(includeNo))
    \/ Gesture(\E key \in SortKeys : SortHeaderClick(key))
    \/ Gesture(ChipClearClick)
    \/ Gesture(\E score \in 0..10 : ChartBarClick(score))
    \/ Gesture(\E i \in 1..Len(tbody.rows) : CheckboxChange(i))
    \/ Gesture(ResetClick)
    \/ Gesture(ClearCompareClick)
    \/ Gesture(CompareClick)
    \/ Dismiss(CompareClose)

Spec == Init /\ [][Next]_vars

----------------------------------------------------------------------------
(* The pure-function specification of the engine                           *)

InitEngine ==
    /\ Parsed(MainEnv)
    /\ url = EmptyUrl
    /\ storage = NoCache
    /\ IsEngineProbe(probe)
    /\ result = NoResult

\* getFilteredData applied to its own result, under the same controls
ApplyFilterAgain ==
    /\ probe.kind = "filter"
    /\ result.op = "filter"
    /\ result' = [op |-> "refilter", once |-> result.rows,
                  rows |-> getFilteredData(result.rows, ControlsOf(probe.fs))]
    /\ UNCHANGED <<appVars, probe>>

NextEngine ==
    \/ ApplyFilter
    \/ ApplySort
    \/ ApplyFilterAgain

SpecEngine == InitEngine /\ [][NextEngine]_vars

----------------------------------------------------------------------------
(* Properties of the filter/sort engine (under SpecEngine)                 *)

\* position of a record of the probed dataset in the result, 0 when dropped
PosIn(rows, d) ==
    IF \E j \in 1..Len(rows) : rows[j] = d
    THEN CHOOSE j \in 1..Len(rows) : rows[j] = d
    ELSE 0

\* s contains t, letter case ignored
ContainsIgnoringCase(s, t) ==
    \E off \in 0..(Len(s) - Len(t)) :
        \A k \in 1..Len(t) : LowerChar(s[off + k]) = LowerChar(t[k])

\* the four conditions on a record d under a filter state fs
FourConditions(d, fs) ==
    /\ ContainsIgnoringCase(d.name, fs.searchText)
    /\ (fs.brand = EmptyStr \/ d.brand = fs.brand)
    /\ (fs.scoreFilter = NullNum \/ d.repairability_score = fs.scoreFilter)
    /\ (fs.includeUnscored \/ d.repairability_score # NullNum)

\* C3: getFilteredData keeps a record if and only if the four conditions hold
\* (search text contained case-insensitively, brand unset or equal, score
\* filter unset or equal -- 0 included --, unscored records only when they
\* are included); kept records stay in dataset order, and with
\* includeUnscored false no record without a score is kept.
C3_FilterKeepsIffFourConditions ==
    result.op = "filter" =>
        /\ \A i \in 1..Len(probe.data) :
               (PosIn(result.rows, probe.data[i]) # 0)
                   <=> FourConditions(probe.data[i], probe.fs)
        /\ \A j \in 1..Len(result.rows) : PosIn(probe.data, result.rows[j]) # 0
        /\ \A j, k \in 1..Len(result.rows) :
               j < k => result.rows[j].link < result.rows[k].link
        /\ ~probe.fs.includeUnscored =>
               \A j \in 1..Len(result.rows) :
                   result.rows[j].repairability_score # NullNum

\* the scenario {brand: "X", includeUnscored: false} on [A, B, C] gives [A],
\* and a score filter of 0 has kept exactly the record scored 0
C3_Witness ==
    \/ /\ result.op = "filter"
       /\ probe.data = ScenarioData
       /\ probe.fs = [DefaultFilter EXCEPT !.brand = <<"X">>]
       /\ result.rows = <<ScenarioData[1]>>
    \/ /\ result.op = "filter"
       /\ probe.data = Dataset(<<4, 3, 2>>)
       /\ probe.fs = [DefaultFilter EXCEPT !.scoreFilter = 0, !.includeUnscored = TRUE]
       /\ result.rows = <<Dataset(<<4, 3, 2>>)[1]>>

\* C4: for every sort key and both directions sortData is stable: the result
\* is a permutation of the input in which two records that compare equal
\* keep their input order (link is the input position).
C4_SortStable ==
    result.op = "sort" =>
        /\ Len(result.rows) = Len(probe.data)
        /\ \A i \in 1..Len(probe.data) : PosIn(result.rows, probe.data[i]) # 0
        /\ \A j, k \in 1..Len(result.rows) :
               (j < k /\ compare(result.rows[j], result.rows[k], probe.sort) = 0)
                   => result.rows[j].link < result.rows[k].link

\* a descending sort by score moved a record in front of two tied ones, which
\* kept their order: [B(3), b(3), A(9)] gives [A, B, b]
C4_Witness ==
    /\ result.op = "sort"
    /\ probe.sort = [key |-> KeyScore, direction |-> Desc]
    /\ probe.data = Dataset(<<2, 6, 1>>)
    /\ result.rows = <<probe.data[3], probe.data[1], probe.data[2]>>

\* C5: sorted by repairability_score, every record without a score comes
\* before every scored record (a score of 0 included) when ascending and
\* after every scored record when descending.
C5_AbsentScoreBelowPresent ==
    (result.op = "sort" /\ probe.sort.key = KeyScore) =>
        \A j, k \in 1..Len(result.rows) :
            (/\ result.rows[j].repairability_score = NullNum
             /\ result.rows[k].repairability_score # NullNum)
                => IF probe.sort.direction = Asc THEN j < k ELSE k < j

\* [A(9), B(3), C(null)] ascending gives [C, B, A], and an unscored record
\* has been put in front of a record scored 0
C5_Witness ==
    \/ /\ result.op = "sort"
       /\ probe.sort = [key |-> KeyScore, direction |-> Asc]
       /\ probe.data = ScenarioData
       /\ result.rows = <<ScenarioData[3], ScenarioData[2], ScenarioData[1]>>
    \/ /\ result.op = "sort"
       /\ probe.sort = [key |-> KeyScore, direction |-> Asc]
       /\ probe.data = Dataset(<<4, 3>>)
       /\ result.rows = <<probe.data[2], probe.data[1]>>

----------------------------------------------------------------------------
(* Properties of the page (under Spec)                                     *)

\* view is the stable sort, by sort, of the records of raw that ctl keeps:
\* it holds exactly the kept records, in non-decreasing order of the
\* comparator, records that compare equal in dataset order
IsSortOfFilter(view, raw, ctl, sort) ==
    /\ \A i \in 1..Len(raw) : (PosIn(view, raw[i]) # 0) <=> keeps(raw[i], ctl)
    /\ \A j \in 1..Len(view) : PosIn(raw, view[j]) # 0
    /\ \A j, k \in 1..Len(view) :
           j < k =>
               \/ compare(view[j], view[k], sort) < 0
               \/ /\ compare(view[j], view[k], sort) = 0
                  /\ PosIn(raw, view[j]) < PosIn(raw, view[k])

C7_CachedRowsSurviveFailure ==
    [][ ((\E id \in Inflight : loads'[id] = "failed") /\ tbody.kind = "rows")
            => (chartError' /\ tbody' = tbody) ]_vars

\* C8: no loadData call rejects: a cached payload that does not parse is
\* skipped and the call goes on to its fetch.
C8_CorruptCacheFailsSafe ==
    \A id \in 1..Len(loads) : loads[id] # "threw"

\* C9: every loadData call issues its fetch, cached copy or not, and when a
\* fetch succeeds the dataset and the cache entry are the fetched document
\* and a render pass has run on it.
C9_LoadAlwaysFetches ==
    [][ /\ Len(loads') > Len(loads) => loads'[Len(loads')] = "awaiting"
        /\ \A id \in Inflight :
               loads'[id] = "ok" =>
                   /\ devicesData' \in env.docs
                   /\ storage' = JsonCache(devicesData')
                   /\ lastFiltered'.defined
                   /\ renderInputs'.data = devicesData' ]_vars

----------------------------------------------------------------------------
(* The selection tracker: the page with a dataset of six devices, all of   *)
(* them listed, and the gestures that read or write selectedForCompare     *)

NoScoreUrl == [EmptyUrl EXCEPT !.noscore = <<"1">>]

MaxSelGestures == 6

SelEnv ==
    [docs |-> {DocAll},
     texts |-> {EmptyStr},
     urls |-> {NoScoreUrl},
     caches |-> {NoCache, JsonCache(DocSmall)},
     budget |-> MaxSelGestures]

InitSel ==
    /\ Parsed(SelEnv)
    /\ probe = NoProbe
    /\ result = NoResult

NextSel ==
    \/ Event(DOMContentLoaded)
    \/ Event(\E id \in Inflight, doc \in env.docs : FetchOk(id, doc))
    \/ Event(\E id \in Inflight : FetchFail(id))
    \/ Event(WireCheckboxes)
    \/ Gesture(\E i \in 1..Len(tbody.rows) : CheckboxChange(i))
    \/ Gesture(ResetClick)
    \/ Gesture(ClearCompareClick)

SpecSel == InitSel /\ [][NextSel]_vars

\* C2: the selection never holds more than MAX_COMPARE ids, and the change
\* handler of a checkbox ticked while MAX_COMPARE ids are selected leaves the
\* set as it is, leaves every checkbox as it was before the click, and
\* announces the limit.
C2_SelectionCapped ==
    [][ /\ Cardinality(selectedForCompare') <= MAX_COMPARE
        /\ \A i \in 1..Len(tbody.rows) :
               (/\ CheckboxChange(i)
                /\ ~tbody.checked[i]
                /\ Cardinality(selectedForCompare) = MAX_COMPARE)
                   => /\ selectedForCompare' = selectedForCompare
                      /\ tbody'.checked = tbody.checked
                      /\ actionLive' = "limit" ]_vars

\* five ids are selected, a sixth row is listed unticked and unselected, and
\* the limit has been announced
C2_Witness ==
    /\ Cardinality(selectedForCompare) = MAX_COMPARE
    /\ actionLive = "limit"
    /\ tbody.kind = "rows"
    /\ \E i \in 1..Len(tbody.rows) :
           /\ ~tbody.checked[i]
           /\ selId(tbody.rows[i]) \notin selectedForCompare

----------------------------------------------------------------------------
(* The URL round trip: a page in use holds a configuration, stateToQuery   *)
(* writes it to the URL, and the URL is opened on a fresh page             *)

UrlProbes ==
    {[kind |-> "url", data |-> ScenarioData, fs |-> fs, sort |-> st] :
        fs \in FilterStates, st \in SortStates}

\* a page that has loaded ScenarioData and whose controls hold probe.fs and
\* probe.sort
InitUrl ==
    /\ Parsed(MainEnv)
    /\ url = EmptyUrl
    /\ storage = NoCache
    /\ probe \in UrlProbes
    /\ result = NoResult

\* the controls are brought to the configuration and stateToQuery runs
WriteUrl ==
    /\ probe.kind = "url"
    /\ result.op = "none"
    /\ result' = [op |-> "written", rows |-> <<>>]
    /\ page' = "ready"
    /\ devicesData' = probe.data
    /\ brandOptions' = populateBrandFilter(probe.data)
    /\ searchInput' = probe.fs.searchText
    /\ brandFilter' = SelectValue(populateBrandFilter(probe.data), probe.fs.brand)
    /\ scoreFilter' = ControlsOf(probe.fs).score
    /\ includeNoScore' = probe.fs.includeUnscored
    /\ currentSort' = probe.sort
    /\ url' = stateToQuery([ControlsOf(probe.fs) EXCEPT !.brand = brandFilter'],
                           probe.sort)
    /\ UNCHANGED <<storage, selectedForCompare, lastFiltered, renderInputs, overlays, jsonLd, bg, deviceCount, tbody,
                   wirePending, chartError, actionLive, debounceTimer, loads,
                   drawer, chartModule, chartPending, chart, compareModal, env, gestures, probe>>

\* the URL is opened in a new tab: the document is parsed again (no score
\* input, the brand <select> without brand options, currentSort at its
\* initial value) and queryToState runs (line 1037)
OpenFresh ==
    /\ result.op = "written"
    /\ result' = [op |-> "read", rows |-> <<>>]
    /\ LET q == queryToState(url, FreshBrandOptions, EmptyStr, DefaultSort)
       IN  /\ searchInput' = q.search
           /\ brandFilter' = q.brand
           /\ scoreFilter' = q.score
           /\ includeNoScore' = q.noscore
           /\ currentSort' = q.sort
    /\ brandOptions' = FreshBrandOptions
    /\ devicesData' = <<>>
    /\ page' = "parsed"
    /\ UNCHANGED <<storage, selectedForCompare, lastFiltered, renderInputs, overlays, jsonLd, bg, deviceCount, tbody,
                   wirePending, chartError, actionLive, url, debounceTimer, loads,
                   drawer, chartModule, chartPending, chart, compareModal, env, gestures, probe>>

NextUrl ==
    \/ WriteUrl
    \/ OpenFresh

SpecUrl == InitUrl /\ [][NextUrl]_vars

\* C6: after stateToQuery has written a configuration and queryToState has
\* read the query on a fresh page, the controls hold the same search text,
\* brand, sort key, sort direction, score filter and unscored switch.
C6_UrlRoundTrip ==
    result.op = "read" =>
        /\ searchInput = probe.fs.searchText
        /\ brandFilter = probe.fs.brand
        /\ currentSort = probe.sort
        /\ scoreFilter = ControlsOf(probe.fs).score
        /\ includeNoScore = probe.fs.includeUnscored

----------------------------------------------------------------------------
(* The basic variant, src/script.js: no unscored switch, no selection, no  *)
(* URL synchronisation; Chart.js comes from a <script> tag, and the reset  *)
(* button reloads the dataset                                              *)

\* the variables the basic page does not have
notInBasic == <<includeNoScore, selectedForCompare, lastFiltered, renderInputs, overlays, jsonLd, bg, deviceCount,
                wirePending, actionLive, url, debounceTimer, drawer,
                chartModule, chartPending>>

\* the filter predicate of script.js:43-48
keepsBasic(d, ctl) ==
    matchesSearch(d, ctl) /\ matchesBrand(d, ctl) /\ matchesScore(d, ctl)

RECURSIVE FilterSeqBasic(_, _)
FilterSeqBasic(data, ctl) ==
    IF data = <<>> THEN <<>>
    ELSE (IF keepsBasic(Head(data), ctl) THEN <<Head(data)>> ELSE <<>>)
         \o FilterSeqBasic(Tail(data), ctl)

getFilteredDataBasic(data, ctl) == FilterSeqBasic(data, ctl)

\* a.teardown_urls?.[0]?.url || ''
FirstTeardownUrl(d) ==
    IF d.teardown_urls = NullTeardowns \/ d.teardown_urls = <<>> THEN EmptyStr
    ELSE OrEmpty(d.teardown_urls[1].url)

\* the string comparison key of script.js:55-64
StrKeyBasic(d, key) ==
    IF key = KeyTeardown THEN toLowerCase(FirstTeardownUrl(d))
    ELSE StrKey(d, key)

KeyLessBasic(a, b, key) ==
    IF key = KeyScore
    THEN ScoreOrSentinel(a.repairability_score) < ScoreOrSentinel(b.repairability_score)
    ELSE StrLess(StrKeyBasic(a, key), StrKeyBasic(b, key))

\* the comparator of script.js:54-70
compareBasic(a, b, sort) ==
    IF KeyLessBasic(a, b, sort.key) THEN (IF sort.direction = Asc THEN 0 - 1 ELSE 1)
    ELSE IF KeyLessBasic(b, a, sort.key) THEN (IF sort.direction = Asc THEN 1 ELSE 0 - 1)
    ELSE 0

RECURSIVE InsertSortedBasic(_, _, _)
InsertSortedBasic(sorted, x, sort) ==
    IF sorted = <<>> THEN <<x>>
    ELSE IF compareBasic(sorted[Len(sorted)], x, sort) > 0
         THEN InsertSortedBasic(SubSeq(sorted, 1, Len(sorted) - 1), x, sort)
              \o <<sorted[Len(sorted)]>>
         ELSE sorted \o <<x>>

RECURSIVE SortFromBasic(_, _, _)
SortFromBasic(sorted, rest, sort) ==
    IF rest = <<>> THEN sorted
    ELSE SortFromBasic(InsertSortedBasic(sorted, Head(rest), sort), Tail(rest), sort)

sortDataBasic(data, sort) == SortFromBasic(<<>>, data, sort)

ViewBasic(raw, ctl, sort) == sortDataBasic(getFilteredDataBasic(raw, ctl), sort)

LoadingRow == [kind |-> "loading", rows |-> <<>>, checked |-> <<>>]

\* populateTable of script.js:73-141
populateTableBasic(view) ==
    IF view = <<>> THEN [kind |-> "empty", rows |-> <<>>, checked |-> <<>>]
    ELSE [kind |-> "rows", rows |-> view, checked |-> <<>>]

\* renderChart of script.js:205-301 on st = [chart, err, threw]; without
\* Chart.js, new Chart(...) throws a ReferenceError
renderChartBasic(st, data) ==
    IF data = <<>> THEN [chart |-> st.chart, err |-> TRUE, threw |-> FALSE]
    ELSE IF ~env.chartLib THEN [chart |-> st.chart, err |-> FALSE, threw |-> TRUE]
    ELSE [chart |-> [drawn |-> TRUE, data |-> data], err |-> FALSE, threw |-> FALSE]

\* renderTable of script.js:190-203 as a function of the chart state
renderTableChart(st, view) ==
    IF env.chartLib THEN renderChartBasic(st, view)
    ELSE [chart |-> st.chart, err |-> st.err, threw |-> FALSE]

\* the controls script.js reads
ControlsBasic ==
    [search |-> searchInput, brand |-> brandFilter, score |-> scoreFilter,
     noscore |-> FALSE]

\* renderTable() of script.js from a handler other than loadData
RenderTableBasic(ctl, sort) ==
    LET view == ViewBasic(devicesData, ctl, sort)
        st == renderTableChart([chart |-> chart, err |-> chartError], view)
    IN  /\ tbody' = populateTableBasic(view)
        /\ chart' = st.chart
        /\ chartError' = st.err

\* loadData of script.js up to its await (lines 5-24), called with the
\* controls ctl and the sort in force
LoadDataBasic(ctl, sort) ==
    IF storage.kind # "json"
    THEN /\ loads' = Append(loads, IF storage.kind = "corrupt" THEN "threw"
                                   ELSE "awaiting")
         /\ tbody' = LoadingRow
         /\ chartError' = FALSE
         /\ brandFilter' = ctl.brand
         /\ UNCHANGED <<devicesData, brandOptions, chart>>
    ELSE LET data == storage.data
             view == ViewBasic(data, ctl, sort)
             st1 == renderTableChart([chart |-> chart, err |-> FALSE], view)
             st2 == renderChartBasic(st1, data)
         IN  /\ loads' = Append(loads, "awaiting")
             /\ devicesData' = data
             /\ tbody' = populateTableBasic(view)
             /\ brandOptions' = populateBrandFilter(data)
             /\ brandFilter' = EmptyStr
             /\ chart' = st2.chart
             /\ chartError' = (st2.threw \/ st2.err)

\* the DOMContentLoaded handler of script.js (lines 376-390)
DOMContentLoadedBasic ==
    /\ page = "parsed"
    /\ page' = "ready"
    /\ LoadDataBasic(ControlsBasic, currentSort)
    /\ UNCHANGED <<storage, searchInput, scoreFilter, currentSort, notInBasic,
                   compareModal, env, probe, result>>

\* loadData of script.js after a successful fetch (lines 27-31); an exception
\* of renderChart lands in the catch block of lines 32-36
FetchOkBasic(id, doc) ==
    /\ id \in Inflight
    /\ devicesData' = doc
    /\ storage' = JsonCache(doc)
    /\ brandOptions' = populateBrandFilter(doc)
    /\ brandFilter' = EmptyStr
    /\ LET view == ViewBasic(doc, ControlsBasic, currentSort)
           st1 == renderTableChart([chart |-> chart, err |-> chartError], view)
           st2 == renderChartBasic(st1, doc)
       IN  /\ chart' = st2.chart
           /\ IF st2.threw
              THEN /\ loads' = [loads EXCEPT ![id] = "failed"]
                   /\ tbody' = ErrorRow
                   /\ chartError' = TRUE
              ELSE /\ loads' = [loads EXCEPT ![id] = "ok"]
                   /\ tbody' = populateTableBasic(view)
                   /\ chartError' = st2.err
    /\ UNCHANGED <<searchInput, scoreFilter, currentSort, page, notInBasic,
                   compareModal, env, probe, result>>

\* the catch block of script.js:32-36 after a failed fetch
FetchFailBasic(id) ==
    /\ id \in Inflight
    /\ loads' = [loads EXCEPT ![id] = "failed"]
    /\ tbody' = ErrorRow
    /\ chartError' = TRUE
    /\ UNCHANGED <<devicesData, storage, searchInput, brandFilter, brandOptions,
                   scoreFilter, currentSort, page, chart, notInBasic, compareModal, env, probe,
                   result>>

\* input on #searchInput: renderTable (script.js:379)
SearchInputBasic(text) ==
    /\ page = "ready"
    /\ text # searchInput
    /\ searchInput' = text
    /\ RenderTableBasic([ControlsBasic EXCEPT !.search = text], currentSort)
    /\ UNCHANGED <<devicesData, storage, brandFilter, brandOptions, scoreFilter,
                   currentSort, loads, page, notInBasic, compareModal, env, probe, result>>

\* change on #brandFilter: renderTable (script.js:380)
BrandChangeBasic(b) ==
    /\ page = "ready"
    /\ b \in brandOptions
    /\ b # brandFilter
    /\ brandFilter' = b
    /\ RenderTableBasic([ControlsBasic EXCEPT !.brand = b], currentSort)
    /\ UNCHANGED <<devicesData, storage, searchInput, brandOptions, scoreFilter,
                   currentSort, loads, page, notInBasic, compareModal, env, probe, result>>

\* click on a sortable header: toggleSort (script.js:180-188, 389)
SortHeaderClickBasic(key) ==
    /\ page = "ready"
    /\ currentSort' = toggleSort(currentSort, key)
    /\ RenderTableBasic(ControlsBasic, currentSort')
    /\ UNCHANGED <<devicesData, storage, searchInput, brandFilter, brandOptions,
                   scoreFilter, loads, page, notInBasic, compareModal, env, probe, result>>

\* onClick of the chart of script.js (lines 285-298)
ChartBarClickBasic(score) ==
    /\ page = "ready"
    /\ HasBar(score)
    /\ searchInput' = EmptyStr
    /\ brandFilter' = SelectValue(brandOptions, EmptyStr)
    /\ scoreFilter' = NumToStr(score)
    /\ RenderTableBasic([search |-> EmptyStr, brand |-> EmptyStr,
                         score |-> NumToStr(score), noscore |-> FALSE], currentSort)
    /\ UNCHANGED <<devicesData, storage, brandOptions, currentSort, loads, page,
                   notInBasic, compareModal, env, probe, result>>

\* click on #resetFilters (script.js:381-387): the controls are reset and
\* loadData() is called, whatever loads are still awaiting their fetch
ResetClickBasic ==
    /\ page = "ready"
    /\ searchInput' = EmptyStr
    /\ scoreFilter' = EmptyStr
    /\ currentSort' = DefaultSort
    /\ LoadDataBasic([search |-> EmptyStr, brand |-> SelectValue(brandOptions, EmptyStr),
                      score |-> EmptyStr, noscore |-> FALSE], DefaultSort)
    /\ UNCHANGED <<storage, page, notInBasic, compareModal, env, probe, result>>

BasicEnv ==
    [docs |-> {ScenarioData, DocSmall},
     texts |-> {EmptyStr, <<"a">>},
     urls |-> {EmptyUrl},
     caches |-> {NoCache, CorruptCache, JsonCache(DocSmall)},
     budget |-> MaxGestures,
     chartLib |-> TRUE]

\* the basic page as parsed; the Chart.js <script> may have failed to load
InitBasic ==
    /\ \E lib \in BOOLEAN : Parsed([BasicEnv EXCEPT !.chartLib = lib])
    /\ probe = NoProbe
    /\ result = NoResult

NextBasic ==
    \/ Event(DOMContentLoadedBasic)
    \/ Event(\E id \in Inflight, doc \in env.docs : FetchOkBasic(id, doc))
    \/ Event(\E id \in Inflight : FetchFailBasic(id))
    \/ Gesture(\E text \in env.texts : SearchInputBasic(text))
    \/ Gesture(\E b \in brandOptions : BrandChangeBasic(b))
    \/ Gesture(\E key \in SortKeys : SortHeaderClickBasic(key))
    \/ Gesture(\E score \in 0..10 : ChartBarClickBasic(score))
    \/ Gesture(ResetClickBasic)

SpecBasic == InitBasic /\ [][NextBasic]_vars

\* C10: at no time are two loadData calls awaiting their fetch.
C10_SingleLoadInFlight == Cardinality(Inflight) <= 1

\* C11: the response of a load that started before a load whose response
\* has already been applied changes neither the dataset, nor the cache, nor
\* the table.
C11_StaleResponseIgnored ==
    [][ \A id \in Inflight :
            (/\ loads'[id] = "ok"
             /\ \E newer \in 1..Len(loads) : newer > id /\ loads[newer] = "ok")
                => /\ devicesData' = devicesData
                   /\ storage' = storage
                   /\ tbody' = tbody ]_vars

----------------------------------------------------------------------------
(* Further properties of the page (under Spec)                             *)

\* C12: while a load that found a cache entry awaits its response, the
\* cached dataset is in memory and has been rendered; once the response has
\* been applied the dataset in memory is the fetched document, which is also
\* what the cache holds and what the last render read.
C12_CachedRenderThenNetwork ==
    \A id \in 1..Len(loads) :
        /\ (loads[id] = "awaiting" /\ storage.kind = "json") =>
               /\ devicesData = storage.data
               /\ lastFiltered.defined
               /\ renderInputs.data = storage.data
        /\ loads[id] = "ok" =>
               /\ devicesData \in env.docs
               /\ storage = JsonCache(devicesData)
               /\ renderInputs.data = devicesData

\* the response has been applied after the cached rows were on screen: a
\* device of the cached dataset that the fetched document lacks was selected
\* from them
C12_Witness ==
    /\ loads = <<"ok">>
    /\ devicesData = ScenarioData
    /\ selId(DocSmall[2]) \in selectedForCompare

\* C13: when the response of a load is a failure (a status that is not ok, a
\* rejected fetch, a body that does not parse), the load ends caught, the
\* table shows the error row and the chart error indicator is visible.
C13_FailureSurfaced ==
    [][ \A id \in Inflight :
            (loads'[id] # "awaiting" /\ loads'[id] # "ok")
                => /\ loads'[id] = "failed"
                   /\ tbody' = ErrorRow
                   /\ chartError' ]_vars

\* the only load has failed, the error row and the indicator are on screen
C13_Witness ==
    /\ loads = <<"failed">>
    /\ tbody = ErrorRow
    /\ chartError

\* C14: once a load has failed, a further loadData call is made only by a
\* user gesture, the click on the reset button; no step of the page itself
\* (a timer, a response, a promise callback) starts one.
C14_NoAutomaticRetry ==
    [][ ((\E id \in 1..Len(loads') : loads'[id] = "failed")
            /\ Len(loads') > Len(loads))
                => (gestures' > gestures /\ actionLive' = "reset") ]_vars

\* the load has failed, the user has clicked reset since (the error row has
\* been replaced by the render of the reset), and no fetch is pending
C14_Witness ==
    /\ loads = <<"failed">>
    /\ actionLive = "reset"
    /\ tbody.kind # "error"
    /\ gestures > 0

\* C15: the selection changes only in the change handler of a row checkbox
\* and in the reset and clear-selection handlers; the handlers of the search
\* text, the brand, the score filter, the unscored switch and the sort, and
\* every render they or a load trigger, leave it exactly as it is.
C15_SelectionSurvivesRenders ==
    [][ selectedForCompare' # selectedForCompare
            => \/ ResetClick
               \/ ClearCompareClick
               \/ \E i \in 1..Len(tbody.rows) : CheckboxChange(i) ]_vars

\* after a change of a filter or of the sort, a selected id belongs to no
\* row of the view
C15_Witness ==
    /\ lastFiltered.defined
    /\ actionLive \in {"search", "brand", "include", "exclude", "sorted",
                       "score", "score-cleared"}
    /\ \E id \in selectedForCompare :
           \A i \in 1..Len(lastFiltered.rows) : selId(lastFiltered.rows[i]) # id

----------------------------------------------------------------------------
(* The comparison: the page with the scenario dataset or with a dataset in *)
(* which five records share one name and brand, all rows listed, and the   *)
(* gestures that lead to a comparison                                      *)

DocDup == Dataset(<<1, 1, 1, 1, 1, 2>>)

MaxCmpGestures == 4

CmpEnv ==
    [docs |-> {ScenarioData, DocDup},
     texts |-> {EmptyStr},
     urls |-> {NoScoreUrl},
     caches |-> {NoCache},
     budget |-> MaxCmpGestures]

InitCmp ==
    /\ Parsed(CmpEnv)
    /\ probe = NoProbe
    /\ result = NoResult

NextCmp ==
    \/ Event(DOMContentLoaded)
    \/ Event(\E id \in Inflight, doc \in env.docs : FetchOk(id, doc))
    \/ Event(WireCheckboxes)
    \/ Gesture(\E i \in 1..Len(tbody.rows) : CheckboxChange(i))
    \/ Gesture(\E includeNo \in BOOLEAN : SegClick(includeNo))
    \/ Gesture(ClearCompareClick)
    \/ Gesture(CompareClick)
    \/ Dismiss(CompareClose)

SpecCmp == InitCmp /\ [][NextCmp]_vars

\* positions of the records of a list whose id is selected
SelectedIn(list) ==
    {i \in 1..Len(list) : selId(list[i]) \in selectedForCompare}

\* C16: a click on the compare button resolves every selected id to its
\* record of the dataset, listed in the current view or not: with two ids or
\* more selected, all of devices of the dataset (five records at most), the
\* comparison opens and holds a card for every selected id.
C16_SelectedIdsResolve ==
    [][ (/\ CompareClick
         /\ Cardinality(selectedForCompare) >= 2
         /\ Cardinality(SelectedIn(devicesData)) <= 5
         /\ \A id \in selectedForCompare :
                \E i \in 1..Len(devicesData) : selId(devicesData[i]) = id)
            => /\ compareModal'.shown
               /\ \A id \in selectedForCompare :
                      \E j \in 1..Len(compareModal'.items) :
                          selId(compareModal'.items[j]) = id ]_vars

\* C17: a click on the compare button opens the comparison only when two
\* records or more resolve, and then with five cards at most; otherwise it
\* announces that two devices are needed and builds no comparison.  A
\* comparison on screen always holds between two and five cards.
C17_TwoToOpenFiveShown ==
    [][ /\ CompareClick =>
               IF Cardinality(SelectedIn(CompareSource)) >= 2
               THEN /\ compareModal'.shown
                    /\ Len(compareModal'.items) >= 2
                    /\ Len(compareModal'.items) <= 5
               ELSE /\ actionLive' = "need-two"
                    /\ compareModal' = compareModal
        /\ compareModal'.shown =>
               (Len(compareModal'.items) >= 2 /\ Len(compareModal'.items) <= 5) ]_vars

\* six records resolve (five of them share the selected name and brand) and
\* the comparison on screen holds five cards
C17_Witness ==
    /\ compareModal.shown
    /\ Len(compareModal.items) = 5
    /\ Cardinality(SelectedIn(CompareSource)) = 6

----------------------------------------------------------------------------
(* Sort state                                                              *)

\* C18: the sort state is one (key, direction) pair with a direction of
\* ascending or descending; a click on the header of the active key flips the
\* direction and keeps the key, a click on another header makes that key
\* active, ascending, whatever the direction was.
C18_OneSortPairToggled ==
    [][ /\ DOMAIN currentSort' = {"key", "direction"}
        /\ currentSort'.direction \in Directions
        /\ \A key \in SortKeys :
               SortHeaderClick(key) =>
                   IF currentSort.key = key
                   THEN /\ currentSort'.key = key
                        /\ currentSort'.direction # currentSort.direction
                        /\ currentSort'.direction \in Directions
                   ELSE currentSort' = [key |-> key, direction |-> Asc] ]_vars

\* a header other than the one of the page's address was clicked twice: the
\* first click made it active ascending, the second flipped it
C18_Witness ==
    /\ page = "ready"
    /\ actionLive = "sorted"
    /\ currentSort = [key |-> KeyTeardown, direction |-> Desc]

----------------------------------------------------------------------------
(* The query string written by stateToQuery                                *)

\* C19: stateToQuery leaves out every parameter whose control is empty or at
\* its default: after it has written the address, q is absent when the search
\* is empty, brand when no brand is chosen, score when no score filter is set,
\* noscore when unscored devices are excluded and sort when the sort is name
\* ascending; in the default state the query string is empty.
C19_DefaultsOmitted ==
    (result.op = "written") =>
        /\ (searchInput = EmptyStr) => url.q = NullStr
        /\ (brandFilter = EmptyStr) => url.brand = NullStr
        /\ (scoreFilter = EmptyStr) => url.score = NullStr
        /\ (~includeNoScore) => url.noscore = NullStr
        /\ (currentSort = DefaultSort) => url.sort = NullStr
        /\ (probe.fs = DefaultFilter /\ probe.sort = DefaultSort) => url = EmptyUrl

----------------------------------------------------------------------------
(* The histogram of the chart: renderChart is given a dataset whose scores *)
(* are integers inside and outside 0..10, null or fractional               *)

ChartScores == {0, 3, 10, 11, 0 - 1, NullNum, SevenAndAHalf}

RECURSIVE ScoreSeqs(_)
ScoreSeqs(n) ==
    IF n = 0 THEN {<<>>}
    ELSE ScoreSeqs(n - 1) \cup
         {Append(q, v) : q \in {r \in ScoreSeqs(n - 1) : Len(r) = n - 1},
                         v \in ChartScores}

\* records of the dataset carrying the given scores
ChartData(scores) ==
    [i \in 1..Len(scores) |->
        [Universe[2] EXCEPT !.link = i, !.repairability_score = scores[i]]]

IsChartProbe(p) ==
    \E scores \in ScoreSeqs(MaxRecords) :
        p = [kind |-> "chart", data |-> ChartData(scores), fs |-> DefaultFilter,
             sort |-> DefaultSort]

InitChart ==
    /\ Parsed(MainEnv)
    /\ url = EmptyUrl
    /\ storage = NoCache
    /\ IsChartProbe(probe)
    /\ result = NoResult

\* renderChart(data) with data: no histogram is built for an empty dataset
\* (part_003:14-20)
DrawChart ==
    /\ probe.kind = "chart"
    /\ result.op = "none"
    /\ probe.data # <<>>
    /\ result' = [op |-> "charted", rows |-> Buckets(probe.data)]
    /\ UNCHANGED <<appVars, probe>>

DrawNothing ==
    /\ probe.kind = "chart"
    /\ result.op = "none"
    /\ probe.data = <<>>
    /\ result' = [op |-> "no-data", rows |-> <<>>]
    /\ UNCHANGED <<appVars, probe>>

NextChart ==
    \/ DrawChart
    \/ DrawNothing

SpecChart == InitChart /\ [][NextChart]_vars

RECURSIVE SumTo(_, _)
SumTo(q, n) == IF n = 0 THEN 0 ELSE SumTo(q, n - 1) + q[n]

\* the records of the probed dataset whose score is the integer s
ScoredExactly(s) ==
    {i \in 1..Len(probe.data) : probe.data[i].repairability_score = s}

C20_WitnessAllCounted ==
    /\ result.op = "charted"
    /\ Len(probe.data) = MaxRecords
    /\ SumTo(result.rows, 11) = Len(probe.data)

----------------------------------------------------------------------------
(* The overlays in use: teardown toggles, the export menu, the info        *)
(* tooltip, clicks elsewhere and the Escape key                            *)

\* what an overlay step leaves alone
notOverlay == <<devicesData, storage, searchInput, brandFilter, brandOptions,
                scoreFilter, includeNoScore, currentSort, selectedForCompare,
                lastFiltered, renderInputs, jsonLd, bg, deviceCount, tbody, wirePending, chartError,
                actionLive, url, debounceTimer, loads, page, drawer, chartModule,
                chartPending, chart, env, probe, result>>

\* populateTable gives a row a .teardown-toggle when it has teardowns (line 283)
HasToggle(d) == d.teardown_urls # NullTeardowns /\ d.teardown_urls # <<>>

\* click on the toggle of row t (lines 432-441); the toggles in the table are
\* those of the last populateTable call.  The click then reaches the document
\* listeners, where clickOutsideHandler ignores a toggle
ToggleClick(t) ==
    /\ page = "ready"
    /\ tbody.kind = "rows"
    /\ overlays.closures # <<>>
    /\ t \in 1..Len(tbody.rows)
    /\ HasToggle(tbody.rows[t])
    /\ LET c == Len(overlays.closures)
           toggled == IF overlays.closures[c].openFor = t
                      THEN closePortal(overlays, c)
                      ELSE openPortal(overlays, c, t)
       IN  overlays' = ClickOutsideTip(ClickOutsideExport(toggled))
    /\ UNCHANGED <<notOverlay, compareModal>>

\* the first requestAnimationFrame callback of
\* positionPortalRelativeToToggle (lines 386-388) in closure c
PortalFrame(c) ==
    /\ c \in 1..Len(overlays.closures)
    /\ overlays.closures[c].frame
    /\ overlays' = [overlays EXCEPT !.closures[c].frame = FALSE,
                                    !.closures[c].show = TRUE]
    /\ UNCHANGED <<notOverlay, compareModal>>

\* a click on the page outside every overlay, trigger and control
OutsideClick ==
    /\ page = "ready"
    /\ overlays' = DocumentClick(overlays)
    /\ UNCHANGED <<notOverlay, compareModal>>

\* the Escape key, focus on the document body: the keydown listeners of the
\* populateTable calls (472-476), of the export menu (1227-1233) and of the
\* comparison (1339-1344)
EscapeKey ==
    /\ page = "ready"
    /\ overlays' = EscapeExport(EscapePortals(overlays, Len(overlays.closures)))
    /\ compareModal' = [compareModal EXCEPT !.shown = FALSE]
    /\ UNCHANGED notOverlay

\* click on #exportBtn (lines 1240-1243); the handler stops the propagation
ExportBtnClick ==
    /\ page = "ready"
    /\ overlays' = IF overlays.exportExpanded THEN closeExportMenu(overlays)
                   ELSE openExportMenu(overlays)
    /\ UNCHANGED <<notOverlay, compareModal>>

\* the setTimeout(..., 0) of openExportMenu (lines 1218-1236)
ExportTimer ==
    /\ overlays.exportTimers > 0
    /\ overlays' = [overlays EXCEPT !.exportTimers = @ - 1,
                                    !.exportListeners = @ + 1]
    /\ UNCHANGED <<notOverlay, compareModal>>

\* click on an item of the export menu (lines 1210-1217), which then reaches
\* the document listeners as a click inside the menu
ExportItemClick ==
    /\ overlays.exportPortal
    /\ LET closed == closeExportMenu(overlays)
       IN  overlays' = ClickOutsideTip(ClickOutsidePortals(closed, Len(closed.closures)))
    /\ UNCHANGED <<notOverlay, compareModal>>

\* click on #fileAgeInfoBtn (lines 1154-1157); the handler stops the
\* propagation
TipBtnClick ==
    /\ page = "ready"
    /\ overlays' = IF overlays.tip = "shown" THEN closeTip(overlays)
                   ELSE openTip(overlays)
    /\ UNCHANGED <<notOverlay, compareModal>>

\* the first requestAnimationFrame callback of positionTip (lines 1125-1128)
TipFrame ==
    /\ overlays.tipFrame
    /\ overlays' = [overlays EXCEPT !.tipFrame = FALSE, !.tip = "shown"]
    /\ UNCHANGED <<notOverlay, compareModal>>

\* a dataset whose two records both have teardowns
DocTeardowns == Dataset(<<1, 6>>)

MaxOverlayGestures == 4

OverlayEnv ==
    [docs |-> {DocTeardowns},
     texts |-> {EmptyStr},
     urls |-> {EmptyUrl},
     caches |-> {NoCache, JsonCache(DocTeardowns)},
     budget |-> MaxOverlayGestures]

InitOverlay ==
    /\ Parsed(OverlayEnv)
    /\ probe = NoProbe
    /\ result = NoResult

NextOverlay ==
    \/ Event(DOMContentLoaded)
    \/ Event(\E id \in Inflight, doc \in env.docs : FetchOk(id, doc))
    \/ Event(\E c \in 1..Len(overlays.closures) : PortalFrame(c))
    \/ Event(ExportTimer)
    \/ Event(TipFrame)
    \/ Gesture(\E b \in brandOptions : BrandChange(b))
    \/ Gesture(SortHeaderClick(KeyName))
    \/ Gesture(\E t \in 1..Len(tbody.rows) : ToggleClick(t))
    \/ Gesture(OutsideClick)
    \/ Gesture(EscapeKey)
    \/ Gesture(ExportBtnClick)
    \/ Gesture(ExportItemClick)
    \/ Gesture(TipBtnClick)

SpecOverlay == InitOverlay /\ [][NextOverlay]_vars

\* the elements of each overlay category in the document
TeardownPortals == Len(overlays.portals)

ExportMenus == IF overlays.exportPortal THEN 1 ELSE 0

InfoTooltips == IF overlays.tip = "none" THEN 0 ELSE 1

\* C21: the document never holds more than one element of an overlay
\* category: one teardown portal, one export menu, one info tooltip.
C21_OneInstancePerCategory ==
    /\ TeardownPortals <= 1
    /\ ExportMenus <= 1
    /\ InfoTooltips <= 1

\* the teardown portals of the document that are shown
ShownPortals ==
    {i \in 1..Len(overlays.portals) : overlays.closures[overlays.portals[i]].show}

\* C22: at most one teardown panel is expanded at any time: at most one
\* teardown portal of the document is shown, and no toggle is marked
\* expanded (no closure holds an open toggle) unless its portal is shown.
C22_OnePanelExpanded ==
    Cardinality(ShownPortals) <= 1

\* a teardown portal of the document is shown in ov
PortalOpen(ov) ==
    \E i \in 1..Len(ov.portals) : ov.closures[ov.portals[i]].show

\* C23: an open overlay is closed by each of an outside click, the Escape
\* key and a click on its own trigger: after an outside click or Escape no
\* teardown portal of the document is shown and the export menu (once its
\* listeners are wired) is gone; a click on the toggle whose panel is open
\* hides the panel, a click on the export button with the menu open removes
\* the menu.
C23_DismissalsClose ==
    [][ /\ (OutsideClick \/ EscapeKey) =>
               /\ ~PortalOpen(overlays')
               /\ (overlays.exportTimers = 0) => ~overlays'.exportPortal
        /\ \A t \in 1..Len(tbody.rows) :
               (ToggleClick(t) /\ overlays.closures[Len(overlays.closures)].openFor = t)
                   => ~overlays'.closures[Len(overlays.closures)].show
        /\ (ExportBtnClick /\ overlays.exportExpanded) => ~overlays'.exportPortal ]_vars

----------------------------------------------------------------------------
(* The debounced search (under Spec)                                       *)

\* C24: the search input is debounced with a cancellable timer: at most one
\* render timer is pending; a keystroke leaves exactly one pending and renders
\* nothing; when the timer fires, none is left, and the one render and URL
\* write it makes use the search text of the last keystroke.
C24_DebouncedSearch ==
    [][ /\ debounceTimer' <= 1
        /\ \A text \in env.texts :
               SearchInput(text) =>
                   /\ debounceTimer' = 1
                   /\ renderInputs' = renderInputs
                   /\ lastFiltered' = lastFiltered
                   /\ url' = url
        /\ DebounceFire =>
               /\ debounceTimer' = 0
               /\ renderInputs'.ctl.search = searchInput
               /\ url'.q = DropEmpty(searchInput)
               /\ lastFiltered'.rows = View(devicesData, Controls, currentSort) ]_vars

\* two keystrokes in a burst ("a" typed and deleted before the timer fired),
\* then the timer: one render after the first, with the final text
C24_Witness ==
    /\ gestures = 2
    /\ Len(overlays.closures) = 2
    /\ selectedForCompare = {}
    /\ searchInput = EmptyStr
    /\ actionLive = "search"
    /\ debounceTimer = 0

----------------------------------------------------------------------------
(* Degraded modes and empty results (under Spec)                           *)

\* C25: when the chart module fails to load, the table still renders and the
\* chart panel shows an error state: once a render has happened with the
\* module failed, #chartError is visible.
C25_ChartFailureShown ==
    (chartModule = "failed" /\ lastFiltered.defined) => chartError

\* C26: an empty derived view is rendered as "no results" and not as an
\* error: while the last render found no record and no load has failed, the
\* table shows the "No devices found" row and #chartError is hidden.
C26_EmptyViewIsNoError ==
    (/\ lastFiltered.defined
     /\ lastFiltered.rows = <<>>
     /\ \A id \in 1..Len(loads) : loads[id] \in {"awaiting", "ok"})
        => (tbody.kind = "empty" /\ ~chartError)

----------------------------------------------------------------------------
(* Idempotence of the filter (under SpecEngine)                            *)

\* C27: the filter is idempotent for every filter state: filtering the
\* result of a filter again with the same state gives the same records in
\* the same order.
C27_FilterIdempotent ==
    (result.op = "refilter") => (result.rows = result.once)

\* a filter that dropped some records and kept others was applied twice
C27_Witness ==
    /\ result.op = "refilter"
    /\ result.rows # <<>>
    /\ Len(result.once) < Len(probe.data)

----------------------------------------------------------------------------
(* The structured metadata (under SpecMeta): a dataset longer than the 25  *)
(* entries the metadata lists                                              *)

MetaRecords == 27

MaxMetaGestures == 2

DocLong == Dataset([i \in 1..MetaRecords |-> ((i - 1) % Len(Universe)) + 1])

MetaEnv ==
    [docs |-> {DocLong, DocTeardowns},
     texts |-> {EmptyStr},
     urls |-> {EmptyUrl},
     caches |-> {NoCache, JsonCache(DocTeardowns)},
     budget |-> MaxMetaGestures]

InitMeta ==
    /\ Parsed(MetaEnv)
    /\ probe = NoProbe
    /\ result = NoResult

NextMeta ==
    \/ Event(DOMContentLoaded)
    \/ Event(\E id \in Inflight, doc \in env.docs : FetchOk(id, doc))
    \/ Gesture(\E b \in brandOptions : BrandChange(b))
    \/ Gesture(\E includeNo \in BOOLEAN : SegClick(includeNo))
    \/ Gesture(\E key \in {KeyName, KeyScore} : SortHeaderClick(key))

SpecMeta == InitMeta /\ [][NextMeta]_vars

\* the entry of the metadata describes device d at position i
Describes(item, d, i) ==
    /\ item.position = i
    /\ item.name = d.name
    /\ item.brand = d.brand
    /\ item.link = d.link
    /\ (item.rating # NullNum) <=> (d.repairability_score \in 0..10)
    /\ (item.rating # NullNum) => (item.rating = d.repairability_score)

\* C28: after every render pass the structured metadata lists exactly the
\* first min(25, n) entries of the view just rendered, in view order with
\* positions 1..k, and an entry has a rating block iff its score is a finite
\* number.
C28_MetadataFirst25 ==
    /\ jsonLd.defined = lastFiltered.defined
    /\ jsonLd.defined =>
           LET n == Len(lastFiltered.rows)
               k == IF n < 25 THEN n ELSE 25
           IN  /\ lastFiltered.rows =
                      View(renderInputs.data, renderInputs.ctl, renderInputs.sort)
               /\ Len(jsonLd.items) = k
               /\ \A i \in 1..k : Describes(jsonLd.items[i], lastFiltered.rows[i], i)

\* a view of more than 25 entries was rendered, with a scoreless device among
\* the first 25
C28_Witness ==
    /\ jsonLd.defined
    /\ Len(lastFiltered.rows) > 25
    /\ Len(jsonLd.items) = 25
    /\ \E i \in 1..25 : jsonLd.items[i].rating = NullNum
    /\ \E i \in 1..25 : jsonLd.items[i].rating # NullNum

----------------------------------------------------------------------------
(* The background animation (under SpecBg), part_000 lines 688-767         *)

MaxFrames == 20

Widths == {"small", "medium", "wide"}

\* resizeBG: count = prefersReducedMotion ? 0 : (innerWidth < 640 ? 28 : 60)
resizeBG(b, w) ==
    [b EXCEPT !.width = w,
              !.particles = IF b.prefersReducedMotion THEN 0
                            ELSE IF w = "small" THEN 28 ELSE 60]

\* startBG: requests a frame unless animateBG is off or a handle is kept
startBG(b) ==
    IF ~b.animateBG THEN b
    ELSE IF b.bgRafId = "null"
    THEN [b EXCEPT !.animateBG = TRUE, !.bgRafId = "pending", !.scheduled = @ + 1]
    ELSE b

\* stopBG: cancelAnimationFrame(bgRafId) cancels the callback when it has
\* not run yet
stopBG(b) ==
    IF b.bgRafId # "null"
    THEN [b EXCEPT !.animateBG = FALSE, !.bgRafId = "null",
                   !.scheduled = IF b.bgRafId = "pending" THEN @ - 1 ELSE @]
    ELSE [b EXCEPT !.animateBG = FALSE]

\* the top level of the script: matchMedia(...).matches is reduced, the
\* document is hidden or not, resizeBG(), then startBG() unless reduced
BgLoad(hidden, reduced, w) ==
    /\ bg.phase = "parsed"
    /\ LET read == [bg EXCEPT !.phase = "running", !.hidden = hidden,
                              !.prefersReducedMotion = reduced]
           sized == resizeBG(read, w)
       IN  bg' = IF ~reduced THEN startBG([sized EXCEPT !.animateBG = TRUE])
                 ELSE sized

\* the resize listener
BgResize(w) ==
    /\ bg.phase = "running"
    /\ w # bg.width
    /\ bg' = resizeBG(bg, w)

\* the visibilitychange listener, after the document changed its state
VisibilityChange ==
    /\ bg.phase = "running"
    /\ LET now == [bg EXCEPT !.hidden = ~bg.hidden]
       IN  bg' = IF now.hidden THEN stopBG(now)
                 ELSE IF ~now.prefersReducedMotion
                 THEN startBG([now EXCEPT !.animateBG = TRUE])
                 ELSE now

\* tickBG run by the browser as a frame callback; a hidden page runs none
tickBG ==
    /\ bg.phase = "running"
    /\ bg.scheduled > 0
    /\ ~bg.hidden
    /\ bg.drawn < MaxFrames
    /\ LET ran == [bg EXCEPT !.scheduled = @ - 1, !.bgRafId = "ran", !.drawn = @ + 1]
       IN  bg' = IF ran.animateBG
                 THEN [ran EXCEPT !.bgRafId = "pending", !.scheduled = @ + 1]
                 ELSE ran

notBg == <<appVarsNoBg, probe, result>>

InitBg ==
    /\ Parsed(OverlayEnv)
    /\ url = EmptyUrl
    /\ storage = NoCache
    /\ probe = NoProbe
    /\ result = NoResult

NextBg ==
    \/ \E hidden, reduced \in BOOLEAN, w \in Widths :
           BgLoad(hidden, reduced, w) /\ UNCHANGED notBg
    \/ \E w \in Widths : BgResize(w) /\ UNCHANGED notBg
    \/ VisibilityChange /\ UNCHANGED notBg
    \/ tickBG /\ UNCHANGED notBg

SpecBg == InitBg /\ [][NextBg]_vars

\* C29: a frame callback of the background animation is scheduled only
\* while the page is visible and no reduced motion is requested: hiding the
\* page cancels it, and with reduced motion it is never started.
C29_FrameOnlyVisibleNoReducedMotion ==
    (bg.scheduled > 0) => (~bg.hidden /\ ~bg.prefersReducedMotion)

----------------------------------------------------------------------------
(* The order of a device's teardown links (under SpecTd)                   *)

MaxTeardowns == 3

T3 == Td(<<"T", "3">>, <<"c">>, {"archived", "starred"})

T4 == Td(<<"T", "4">>, <<"d">>, {"starred"})

Teardowns == {T1, T2, T3, T4}

\* Array.isArray(t.tags) && t.tags.includes('archived')
isArchivedTeardown(t) == "archived" \in t.tags

\* teardowns.map((t, i) => ({t, i}))
withIndex(teardowns) == [i \in 1..Len(teardowns) |-> [t |-> teardowns[i], i |-> i]]

\* the comparator of sortTeardowns: negative when a goes before b
TeardownCmp(a, b) ==
    LET aArchived == IF isArchivedTeardown(a.t) THEN 1 ELSE 0
        bArchived == IF isArchivedTeardown(b.t) THEN 1 ELSE 0
    IN  IF aArchived # bArchived THEN aArchived - bArchived ELSE a.i - b.i

\* Array.prototype.sort with TeardownCmp: x goes after the entries that do
\* not compare greater than it
RECURSIVE InsertTeardown(_, _)
InsertTeardown(sorted, x) ==
    IF sorted = <<>> THEN <<x>>
    ELSE IF TeardownCmp(x, Head(sorted)) < 0 THEN <<x>> \o sorted
    ELSE <<Head(sorted)>> \o InsertTeardown(Tail(sorted), x)

RECURSIVE SortTeardownsFrom(_, _)
SortTeardownsFrom(pairs, sorted) ==
    IF pairs = <<>> THEN sorted
    ELSE SortTeardownsFrom(Tail(pairs), InsertTeardown(sorted, Head(pairs)))

\* the teardowns in the order given
sortTeardownsAsGiven(teardowns) == teardowns

\* sortTeardowns (lines 92-101)
sortTeardowns(teardowns) ==
    LET sorted == SortTeardownsFrom(withIndex(teardowns), <<>>)
    IN  [k \in 1..Len(sorted) |-> sorted[k].t]

\* renderTeardownLinks (lines 135-137): the links in the order rendered, none
\* for an empty list
renderTeardownLinks(teardownUrls) ==
    IF teardownUrls = <<>> THEN <<>> ELSE sortTeardowns(teardownUrls)

RECURSIVE TeardownSeqs(_)
TeardownSeqs(n) ==
    IF n = 0 THEN {<<>>}
    ELSE TeardownSeqs(n - 1) \cup
         {Append(l, t) : l \in {m \in TeardownSeqs(n - 1) : Len(m) = n - 1},
                         t \in Teardowns}

IsTeardownProbe(p) ==
    \E l \in TeardownSeqs(MaxTeardowns) :
        p = [kind |-> "teardowns", data |-> l, fs |-> DefaultFilter, sort |-> DefaultSort]

InitTd ==
    /\ Parsed(MainEnv)
    /\ url = EmptyUrl
    /\ storage = NoCache
    /\ IsTeardownProbe(probe)
    /\ result = NoResult

RenderTeardownLinks ==
    /\ probe.kind = "teardowns"
    /\ result.op = "none"
    /\ result' = [op |-> "teardowns", rows |-> renderTeardownLinks(probe.data)]
    /\ UNCHANGED <<appVars, probe>>

NextTd == RenderTeardownLinks

SpecTd == InitTd /\ [][NextTd]_vars

\* the entries of l that are archived
ArchivedOf(l) == SelectSeq(l, LAMBDA t : "archived" \in t.tags)

\* the entries of l that are not archived
CurrentOf(l) == SelectSeq(l, LAMBDA t : "archived" \notin t.tags)

\* C30: a device's teardown entries are rendered with every non-archived
\* entry before every archived one, each group in its original relative
\* order.
C30_ArchivedLastStable ==
    (result.op = "teardowns") =>
        (result.rows = CurrentOf(probe.data) \o ArchivedOf(probe.data))

\* the scenario [T1 (archived), T2] rendered as [T2, T1]
C30_Witness ==
    /\ result.op = "teardowns"
    /\ probe.data = <<T1, T2>>
    /\ result.rows = <<T2, T1>>

----------------------------------------------------------------------------
(* The brand filter across a dataset load (under Spec)                     *)

\* C31: a brand filter in force is still in force after a load publishes
\* data: after the network success the brand control holds the same value
\* and the table shows the view filtered by that value.
C31_BrandSurvivesLoad ==
    [][ ( /\ brandFilter # EmptyStr
          /\ \E id \in Inflight, doc \in env.docs : FetchOk(id, doc) )
        => ( /\ brandFilter' = brandFilter
             /\ lastFiltered'.rows = View(devicesData', Controls', currentSort') )
      ]_vars

----------------------------------------------------------------------------
(* The result count label (under Spec)                                     *)

\* C32: after every render pass the result count label equals the number
\* of records of the view just rendered, also when that view is empty (the
\* static label of the page, before the first write, is left out).
C32_CountLabelIsViewSize ==
    (lastFiltered.defined /\ deviceCount # NullNum) =>
        (deviceCount = Len(lastFiltered.rows))

----------------------------------------------------------------------------
(* The histogram after a load (under Spec)                                 *)

\* C33: once a load has completed and every pending chart callback has run,
\* the histogram is computed from the view the table shows, also when a
\* filter of the URL is in force at load time (no user gesture yet).
C33_ChartOfViewAfterLoad ==
    ( /\ gestures = 0
      /\ Inflight = {}
      /\ \E id \in 1..Len(loads) : loads[id] = "ok"
      /\ chartModule = "ready"
      /\ chartPending = <<>>
      /\ chart.drawn )
    => (Buckets(chart.data) = Buckets(lastFiltered.rows))

----------------------------------------------------------------------------
(* The comparison drawer (under Spec)                                      *)

\* C34: after every action that changes the selection set, the drawer shows
\* the size of the set (so it is hidden iff the set is empty and the compare
\* button is disabled iff fewer than 2 ids are selected), also when the view
\* is empty.
C34_DrawerFollowsSelection ==
    [][ (selectedForCompare' # selectedForCompare)
        => (drawer' = Cardinality(selectedForCompare')) ]_vars

----------------------------------------------------------------------------
(* Row checkboxes and the selection set (under SpecCmp)                    *)

\* C35: between handlers, the checkbox of each visible row is checked iff
\* the row's id (name and brand) is in the selection set, also when two
\* records of the view share name and brand.
C35_CheckboxIffSelected ==
    (tbody.kind = "rows") =>
        \A i \in 1..Len(tbody.rows) :
            tbody.checked[i] <=> (selId(tbody.rows[i]) \in selectedForCompare)

----------------------------------------------------------------------------
(* Query strings typed by hand (under SpecQuery): queryToState reads a     *)
(* query string no stateToQuery has written                                *)

QuerySorts ==
    {NullStr, <<"n", "a", "m", "e">>,
     SortParam([key |-> KeyScore, direction |-> Desc]),
     SortParam([key |-> KeyBrand, direction |-> Asc]),
     SortParam([key |-> <<"p", "r", "i", "c", "e">>, direction |-> Asc]),
     SortParam([key |-> KeyName, direction |-> <<"u", "p">>]),
     SortParam([key |-> EmptyStr, direction |-> Desc])}

QueryScores == {NullStr, <<"0">>, <<"9">>, <<"1", "0">>, <<"1", "1">>, <<"a">>}

QueryUrls ==
    {[q |-> q, brand |-> b, sort |-> st, score |-> sc, noscore |-> ns] :
        q \in {NullStr, <<"a">>}, b \in {NullStr, <<"X">>},
        st \in QuerySorts, sc \in QueryScores, ns \in {NullStr, <<"1">>}}

InitQuery ==
    /\ Parsed([MainEnv EXCEPT !.urls = QueryUrls])
    /\ storage = NoCache
    /\ probe = NoProbe
    /\ result = NoResult

\* queryToState on the page as parsed (line 1037)
ReadQuery ==
    /\ result.op = "none"
    /\ result' = [op |-> "query", rows |-> <<>>]
    /\ LET q == queryToState(url, brandOptions, scoreFilter, currentSort)
       IN  /\ searchInput' = q.search
           /\ brandFilter' = q.brand
           /\ scoreFilter' = q.score
           /\ includeNoScore' = q.noscore
           /\ currentSort' = q.sort
    /\ UNCHANGED <<devicesData, storage, brandOptions, selectedForCompare, lastFiltered,
                   renderInputs, overlays, jsonLd, bg, deviceCount, tbody, wirePending,
                   chartError, actionLive, url, debounceTimer, loads, page, drawer,
                   chartModule, chartPending, chart, compareModal, env, gestures, probe>>

NextQuery == ReadQuery

SpecQuery == InitQuery /\ [][NextQuery]_vars

\* C36: for every query string read by queryToState the state stays in its
\* domain: the sort key is one of the four known keys, the direction is asc
\* or desc, and the score filter is unset or an integer in 0..10.
C36_QueryStateInDomain ==
    (result.op = "query") =>
        /\ currentSort.key \in SortKeys
        /\ currentSort.direction \in Directions
        /\ (scoreFilter = EmptyStr \/ \E n \in 0..10 : scoreFilter = NumToStr(n))

----------------------------------------------------------------------------
(* The reset action (under Spec)                                           *)

\* the controls of the default state
DefaultControls == ControlsOf(DefaultFilter)

\* C37: after the reset action, from any reachable state, the search text is
\* empty, no brand and no score filter is set, unscored devices are excluded,
\* the sort is name ascending, the selection set is empty, the table shows
\* the default view of the dataset and the URL reads back as the default
\* state.
C37_ResetRestoresDefaults ==
    [][ ResetClick =>
          /\ searchInput' = EmptyStr
          /\ brandFilter' = EmptyStr
          /\ scoreFilter' = EmptyStr
          /\ ~includeNoScore'
          /\ currentSort' = DefaultSort
          /\ selectedForCompare' = {}
          /\ lastFiltered'.rows = View(devicesData', DefaultControls, DefaultSort)
          /\ tbody' = populateTable(View(devicesData', DefaultControls, DefaultSort), {})
          /\ LET q == queryToState(url', FreshBrandOptions, EmptyStr, DefaultSort)
             IN  /\ q.search = EmptyStr
                 /\ q.brand = EmptyStr
                 /\ q.score = EmptyStr
                 /\ ~q.noscore
                 /\ q.sort = DefaultSort
      ]_vars

\* a reset has run on a loaded dataset and the table shows its default view,
\* in which the scored records A and B are sorted by name
C37_Witness ==
    /\ actionLive = "reset"
    /\ gestures >= 2
    /\ tbody.kind = "rows"
    /\ Len(tbody.rows) = 2
    /\ searchInput = EmptyStr
    /\ currentSort = DefaultSort

----------------------------------------------------------------------------
(* The dataset is read-only outside loads (under Spec)                     *)

\* C38: the dataset is changed only by a load, the cached publish of
\* loadData or its network success: no filter, sort, selection, export,
\* comparison, overlay or render action changes its contents or its order.
C38_DatasetChangedOnlyByLoad ==
    [][ (devicesData' # devicesData)
        => ( \/ DOMContentLoaded
             \/ \E id \in Inflight, doc \in env.docs : FetchOk(id, doc) ) ]_vars

\* a dataset was loaded in an order that is not the order of the view, and
\* a sort by score was rendered from it by a user gesture
C38_Witness ==
    /\ gestures > 0
    /\ lastFiltered.defined
    /\ Len(lastFiltered.rows) > 1
    /\ currentSort.key = KeyScore
    /\ lastFiltered.rows # devicesData
    /\ sortData(devicesData, currentSort) # devicesData

====
